---- MODULE Spec2Model ----
(***************************************************************************)
(* A model of the attribute value decoding engine of adldapsearch.         *)
(*                                                                         *)
(* Every decoder of the program is a pure function of a byte or text       *)
(* slice.  Each component gets its own specification: the initial state    *)
(* draws the decoder's input from a bounded set, and the actions apply     *)
(* the decoder (step by step where the source has a loop whose             *)
(* intermediate states matter, as one step otherwise).                     *)
(*                                                                         *)
(*   SpecOid   OidPrefix::from_ber_bytes                                   *)
(*   SpecSid   Sid::try_from_bytes, Sid's Display and FromStr              *)
(***************************************************************************)
EXTENDS Integers, Sequences, FiniteSets, TLC

VARIABLES
    \* OidPrefix::from_ber_bytes
    oid_input,      \* the slice handed to from_ber_bytes
    oid_bytes,      \* `bytes`: the part of the slice not yet consumed
    fixed_arcs,     \* `fixed_arcs`
    final_range,    \* `final_range` as <<start, end>>, <<>> before the return
    oid_pc,         \* "loop" | "done" | "panic"
    \* Sid::try_from_bytes, Display for Sid, FromStr for Sid
    sid_origin,     \* "bytes": a slice is decoded, shown and parsed; "text": a text is parsed
    sid_bytes,      \* the slice handed to Sid::try_from_bytes
    sid_decoded,    \* its Option<Sid>
    sid_text,       \* the text handed to Sid::from_str, a sequence of characters
    sid_parsed,     \* its Result<Sid, _>
    sid_pc,         \* "bytes" | "decoded" | "absent" | "text" | "parsed"
    \* Acl::try_from_bytes, Acl::try_to_string
    acl_bytes,      \* the slice handed to Acl::try_from_bytes
    acl_decoded,    \* its Option<Acl>, or Abort
    acl_sddl,       \* the Option<String> of Acl::try_to_string
    acl_pc,         \* "bytes" | "decoded" | "absent" | "aborted" | "rendered"
    \* SecurityDescriptor::try_from_bytes, SecurityDescriptor::try_to_string
    sd_bytes,       \* the slice handed to SecurityDescriptor::try_from_bytes
    sd_decoded,     \* its Option<SecurityDescriptor>, or Abort
    sd_sddl,        \* the Option<String> of SecurityDescriptor::try_to_string
    sd_output,      \* the lines output_special_binary_value has printed
    sd_pc,          \* "bytes" | "decoded" | "absent" | "aborted" | "rendered"
    \* Sid::as_well_known_sddl_sid_string, Sid::to_sddl_sid_string
    alias_bytes,    \* the slice the SID is decoded from
    alias_sid,      \* the Option<Sid> of Sid::try_from_bytes
    alias_code,     \* the Option<&str> of as_well_known_sddl_sid_string
    alias_sddl,     \* the String of to_sddl_sid_string
    alias_pc,       \* "bytes" | "decoded" | "absent" | "done"
    \* one call of a decoder of a record family: PrefixMap, TrustForestTrustInfo,
    \* DnsRecord, KeyCredentialLinkBlob, RepsFromTo, ReplUpToDateVector2
    dec_decoder,    \* the name of the decoder that is called
    dec_input,      \* the bytes, or the text, it is called with
    dec_result,     \* what it returns: None, Some(value), or Abort
    dec_pc,         \* "call" | "returned" | "aborted"
    \* one call of output_values
    out_key,        \* the attribute name
    out_classes,    \* the object classes of the entry
    out_values,     \* the values that are still to be output
    out_value,      \* the value of the last iteration of the loop
    out_calls,      \* the calls of the last iteration, in order
    out_pc          \* "loop" | "done"

oid_vars == <<oid_input, oid_bytes, fixed_arcs, final_range, oid_pc>>

sid_vars == <<sid_origin, sid_bytes, sid_decoded, sid_text, sid_parsed, sid_pc>>

acl_vars == <<acl_bytes, acl_decoded, acl_sddl, acl_pc>>

sd_vars == <<sd_bytes, sd_decoded, sd_sddl, sd_output, sd_pc>>

alias_vars == <<alias_bytes, alias_sid, alias_code, alias_sddl, alias_pc>>

dec_vars == <<dec_decoder, dec_input, dec_result, dec_pc>>

out_vars == <<out_key, out_classes, out_values, out_value, out_calls, out_pc>>

vars == <<oid_vars, sid_vars, acl_vars, sd_vars, alias_vars, dec_vars, out_vars>>

\* the variables of the other components, which a component's step leaves alone
non_oid_vars == <<sid_vars, acl_vars, sd_vars, alias_vars, dec_vars, out_vars>>
non_sid_vars == <<oid_vars, acl_vars, sd_vars, alias_vars, dec_vars, out_vars>>
non_acl_vars == <<oid_vars, sid_vars, sd_vars, alias_vars, dec_vars, out_vars>>
non_sd_vars == <<oid_vars, sid_vars, acl_vars, alias_vars, dec_vars, out_vars>>
non_alias_vars == <<oid_vars, sid_vars, acl_vars, sd_vars, dec_vars, out_vars>>
non_dec_vars == <<oid_vars, sid_vars, acl_vars, sd_vars, alias_vars, out_vars>>
non_out_vars == <<oid_vars, sid_vars, acl_vars, sd_vars, alias_vars, dec_vars>>

(***************************************************************************)
(* Bounds of the model.                                                    *)
(***************************************************************************)
\* longest OID prefix slice
MaxOidLen == 3
\* most bytes of an unterminated trailing arc
MaxTrail == 2
\* most sub-authorities of a SID slice
MaxSubs == 2
\* most numbers after "S-1-" in a SID text
MaxParts == 2

(***************************************************************************)
(* Sequence helpers.                                                       *)
(***************************************************************************)
\* bytes[from..to) with 0-based offsets, as a Rust slice expression
Slice(s, from, to) == SubSeq(s, from + 1, to)

\* bytes[from..]
SliceFrom(s, from) == SubSeq(s, from + 1, Len(s))

\* whether bytes[from..to) is a valid slice expression (it aborts otherwise)
SliceOk(s, from, to) == from <= to /\ to <= Len(s)

\* Option<T> and Result<T, _>: the empty sequence is None (or Err), a
\* one-element sequence is Some (or Ok)
None == <<>>
Some(x) == <<x>>
IsSome(o) == Len(o) = 1
Unwrap(o) == o[1]

(***************************************************************************)
(* src/src/macros.rs                                                       *)
(***************************************************************************)
bit_is_set(value, bit_index) == (value \div (2 ^ bit_index)) % 2 # 0

extract_bits_noconvert(value, lowest_bit_index, bit_count) ==
    (value \div (2 ^ lowest_bit_index)) % (2 ^ bit_count)

(***************************************************************************)
(* src/src/oid_prefix.rs                                                   *)
(***************************************************************************)
\* the while loop of take_ber_integer_slice: the split index, from split_index on
RECURSIVE take_split_index(_, _)
take_split_index(bytes, split_index) ==
    IF split_index < Len(bytes)
    THEN IF ~bit_is_set(bytes[split_index + 1], 7)
         THEN split_index + 1
         ELSE take_split_index(bytes, split_index + 1)
    ELSE Len(bytes)

\* <<arc_slice, rest>>
take_ber_integer_slice(bytes) ==
    LET split_index == take_split_index(bytes, 0)
    IN  <<Slice(bytes, 0, split_index), SliceFrom(bytes, split_index)>>

\* the body of is_terminated_ber_integer after its assertion
is_terminated_ber_integer(bytes) ==
    /\ \A i \in 1..(Len(bytes) - 1) : bit_is_set(bytes[i], 7)
    /\ ~bit_is_set(bytes[Len(bytes)], 7)

\* assert_ne!(bytes.len(), 0) of is_terminated_ber_integer
is_terminated_assert_ok(bytes) == Len(bytes) # 0

\* the fold of extract_ber_integer: value <<= 7; value |= low seven bits
RECURSIVE extract_ber_fold(_, _, _)
extract_ber_fold(bytes, i, value) ==
    IF i > Len(bytes)
    THEN value
    ELSE extract_ber_fold(bytes, i + 1,
                          value * 128 + extract_bits_noconvert(bytes[i], 0, 7))

extract_ber_integer(bytes) == extract_ber_fold(bytes, 1, 0)

\* assert!(Self::is_terminated_ber_integer(bytes)) of extract_ber_integer
extract_assert_ok(bytes) ==
    is_terminated_assert_ok(bytes) /\ is_terminated_ber_integer(bytes)

\* a first-arc rule that puts 40 under the 0.n arcs
push_fixed_arc_le40(arcs, arc_value) ==
    IF Len(arcs) = 0
    THEN IF arc_value <= 40 THEN <<0, arc_value>>
         ELSE IF arc_value <= 80 THEN <<1, arc_value - 40>>
         ELSE <<2, arc_value - 80>>
    ELSE Append(arcs, arc_value)

\* the pushes of a terminated arc onto fixed_arcs
push_fixed_arc(arcs, arc_value) ==
    IF Len(arcs) = 0
    THEN IF arc_value < 40 THEN <<0, arc_value>>
         ELSE IF arc_value < 80 THEN <<1, arc_value - 40>>
         ELSE <<2, arc_value - 80>>
    ELSE Append(arcs, arc_value)

\* a smallest continuation that forgets the terminating byte
smallest_bytes_no_end(arc_slice) == arc_slice \o <<128>>

smallest_bytes(arc_slice) == arc_slice \o <<128, 0>>

\* a largest continuation of a single byte
largest_bytes_one(arc_slice) == arc_slice \o <<127>>

largest_bytes(arc_slice) == arc_slice \o <<255, 127>>

\* the standard range of a prefix that ends on a fixed arc
DefaultRange == <<0, 16384>>

\* the bytes the OID prefixes are built from: arc values around the first-arc
\* thresholds 40 and 80, and continuation bytes
OidAlphabet == {3, 4, 39, 40, 42, 79, 80, 127, 128, 129, 130}

\* how many bytes at the end of s have the continuation bit
RECURSIVE TrailLen(_)
TrailLen(s) ==
    IF Len(s) = 0 \/ s[Len(s)] < 128
    THEN 0
    ELSE 1 + TrailLen(SubSeq(s, 1, Len(s) - 1))

OidInputs ==
    {s \in UNION {[1..n -> OidAlphabet] : n \in 0..MaxOidLen} : TrailLen(s) <= MaxTrail}

\* the components at rest: the state of a component no specification runs
OidIdle ==
    /\ oid_input = <<>>
    /\ oid_bytes = <<>>
    /\ fixed_arcs = <<>>
    /\ final_range = <<>>
    /\ oid_pc = "idle"

SidIdle ==
    /\ sid_origin = "idle"
    /\ sid_bytes = <<>>
    /\ sid_decoded = <<>>
    /\ sid_text = <<>>
    /\ sid_parsed = <<>>
    /\ sid_pc = "idle"

AclIdle ==
    /\ acl_bytes = <<>>
    /\ acl_decoded = <<>>
    /\ acl_sddl = <<>>
    /\ acl_pc = "idle"

SdIdle ==
    /\ sd_bytes = <<>>
    /\ sd_decoded = <<>>
    /\ sd_sddl = <<>>
    /\ sd_output = <<>>
    /\ sd_pc = "idle"

AliasIdle ==
    /\ alias_bytes = <<>>
    /\ alias_sid = <<>>
    /\ alias_code = <<>>
    /\ alias_sddl = <<>>
    /\ alias_pc = "idle"

DecIdle ==
    /\ dec_decoder = "idle"
    /\ dec_input = <<>>
    /\ dec_result = <<>>
    /\ dec_pc = "idle"

OutIdle ==
    /\ out_key = "idle"
    /\ out_classes = {}
    /\ out_values = <<>>
    /\ out_value = <<>>
    /\ out_calls = <<>>
    /\ out_pc = "idle"

\* the components that come after the security descriptor are idle
RestIdle == AliasIdle /\ DecIdle /\ OutIdle

\* the components before the decoder calls are idle
CoreIdle == OidIdle /\ SidIdle /\ AclIdle /\ SdIdle

OidInit ==
    /\ SidIdle
    /\ AclIdle
    /\ SdIdle
    /\ RestIdle
    /\ oid_input \in OidInputs
    /\ oid_bytes = oid_input
    /\ fixed_arcs = <<>>
    /\ final_range = <<>>
    /\ oid_pc = "loop"

\* one iteration of the while loop that finds a terminated arc
from_ber_bytes_fixed_arc ==
    /\ oid_pc = "loop"
    /\ Len(oid_bytes) > 0
    /\ LET taken == take_ber_integer_slice(oid_bytes)
           arc_slice == taken[1]
           rest == taken[2]
       IN  IF ~is_terminated_assert_ok(arc_slice)
           THEN /\ oid_pc' = "panic"
                /\ UNCHANGED <<oid_bytes, fixed_arcs, final_range>>
           ELSE /\ is_terminated_ber_integer(arc_slice)
                /\ oid_bytes' = rest
                /\ IF extract_assert_ok(arc_slice)
                   THEN /\ fixed_arcs' = push_fixed_arc(fixed_arcs, extract_ber_integer(arc_slice))
                        /\ oid_pc' = "loop"
                   ELSE /\ fixed_arcs' = fixed_arcs
                        /\ oid_pc' = "panic"
                /\ UNCHANGED final_range
    /\ UNCHANGED oid_input
    /\ UNCHANGED non_oid_vars

\* the iteration that finds the unterminated final arc, and returns
from_ber_bytes_unterminated ==
    /\ oid_pc = "loop"
    /\ Len(oid_bytes) > 0
    /\ LET taken == take_ber_integer_slice(oid_bytes)
           arc_slice == taken[1]
           rest == taken[2]
           smallest == smallest_bytes(arc_slice)
           largest == largest_bytes(arc_slice)
       IN  /\ is_terminated_assert_ok(arc_slice)
           /\ ~is_terminated_ber_integer(arc_slice)
           /\ oid_bytes' = rest
           /\ IF Len(rest) = 0 /\ extract_assert_ok(smallest) /\ extract_assert_ok(largest)
              THEN /\ final_range' = <<extract_ber_integer(smallest),
                                       extract_ber_integer(largest) + 1>>
                   /\ oid_pc' = "done"
              ELSE /\ final_range' = final_range
                   /\ oid_pc' = "panic"
    /\ UNCHANGED <<oid_input, fixed_arcs>>
    /\ UNCHANGED non_oid_vars

\* the loop's exit on an exhausted slice: the last arc was a fixed arc
from_ber_bytes_return ==
    /\ oid_pc = "loop"
    /\ Len(oid_bytes) = 0
    /\ final_range' = DefaultRange
    /\ oid_pc' = "done"
    /\ UNCHANGED <<oid_input, oid_bytes, fixed_arcs>>
    /\ UNCHANGED non_oid_vars

OidNext ==
    \/ from_ber_bytes_fixed_arc
    \/ from_ber_bytes_unterminated
    \/ from_ber_bytes_return

SpecOid == OidInit /\ [][OidNext]_vars

(***************************************************************************)
(* OID prefixes, stated from the slice alone.                              *)
(***************************************************************************)
\* the 1-based positions of the bytes that end an arc
Terminators(s) == {i \in 1..Len(s) : s[i] < 128}

\* the base-128 value of the low seven bits of s[from..to]
RECURSIVE Base128(_, _, _)
Base128(s, from, to) ==
    IF from > to THEN 0
    ELSE (s[to] % 128) + 128 * Base128(s, from, to - 1)

\* the value of the arc that ends at the terminator t
ArcValueAt(s, t) ==
    LET before == {u \in Terminators(s) : u < t}
        from == IF before = {} THEN 1
                ELSE (CHOOSE u \in before : \A w \in before : w <= u) + 1
    IN  Base128(s, from, t)

\* the terminators of s in increasing order
RECURSIVE SortedSeq(_)
SortedSeq(S) ==
    IF S = {} THEN <<>>
    ELSE LET m == CHOOSE x \in S : \A y \in S : x <= y
         IN  <<m>> \o SortedSeq(S \ {m})

\* the arcs the text of the OID rule gives for the terminated arcs of s
ExpectedArcs(s) ==
    LET ts == SortedSeq(Terminators(s))
        v == [k \in 1..Len(ts) |-> ArcValueAt(s, ts[k])]
        first == IF v[1] < 40 THEN <<0, v[1]>>
                 ELSE IF v[1] < 80 THEN <<1, v[1] - 40>>
                 ELSE <<2, v[1] - 80>>
    IN  IF Len(ts) = 0 THEN <<>>
        ELSE first \o [k \in 1..(Len(ts) - 1) |-> v[k + 1]]

EndsTerminated(s) == Len(s) > 0 /\ s[Len(s)] < 128
EndsUnterminated(s) == Len(s) > 0 /\ s[Len(s)] >= 128

\* C1: a slice that ends on a terminated arc gives the arcs of the OID rule
\* (the first arc value split in two, every later one as it is) and the
\* range [0, 16384).
C1_TerminatedArcs ==
    (oid_pc = "done" /\ EndsTerminated(oid_input)) =>
        /\ fixed_arcs = ExpectedArcs(oid_input)
        /\ final_range = <<0, 16384>>

\* C1 at work: [0x2A, 0x03, 0x04] has given 1.2.3.4 and [0, 16384)
C1_Witness ==
    /\ oid_pc = "done"
    /\ oid_input = <<42, 3, 4>>
    /\ fixed_arcs = <<1, 2, 3, 4>>
    /\ final_range = <<0, 16384>>

\* C2: a slice that ends inside an arc leaves the partial arc out of the
\* fixed arcs, and its range is [p*16384, (p+1)*16384), p the base-128 value
\* of the trailing unterminated bytes.
C2_UnterminatedRange ==
    (oid_pc = "done" /\ EndsUnterminated(oid_input)) =>
        LET n == Len(oid_input)
            k == TrailLen(oid_input)
            p == Base128(oid_input, n - k + 1, n)
        IN  /\ fixed_arcs = ExpectedArcs(SubSeq(oid_input, 1, n - k))
            /\ final_range = <<p * 16384, (p + 1) * 16384>>

\* C2 at work: a trailing 0x82 after a fixed arc has given [32768, 49152)
C2_Witness ==
    /\ oid_pc = "done"
    /\ oid_input = <<42, 3, 130>>
    /\ fixed_arcs = <<1, 2, 3>>
    /\ final_range = <<32768, 49152>>

\* C3: from_ber_bytes is total: no assertion fails, the range it returns is
\* not empty, and the empty slice gives no arcs and [0, 16384).
C3_Total ==
    /\ oid_pc # "panic"
    /\ oid_pc = "done" =>
        /\ Len(final_range) = 2
        /\ final_range[1] < final_range[2]
    /\ (oid_pc = "done" /\ oid_input = <<>>) =>
        /\ fixed_arcs = <<>>
        /\ final_range = <<0, 16384>>

\* C3 at work: the empty slice, and a slice that is one unterminated arc
C3_Witness ==
    /\ oid_pc = "done"
    /\ \/ oid_input = <<>> /\ final_range = <<0, 16384>>
       \/ oid_input = <<129, 130>> /\ fixed_arcs = <<>>

(***************************************************************************)
(* Unsigned integers wider than the model checker's: little-endian         *)
(* sequences of 16-bit limbs.  A u8 has one limb, a u32 two, a u64 four.    *)
(***************************************************************************)
LimbBase == 2 ^ 16

BigIsZero(x) == \A i \in 1..Len(x) : x[i] = 0

\* x > y for two numbers of the same number of limbs
BigGreater(x, y) ==
    \E i \in 1..Len(x) :
        /\ x[i] > y[i]
        /\ \A j \in (i + 1)..Len(x) : x[j] = y[j]

\* x * m + a as [limbs, carry], m and a small
RECURSIVE big_mul_add(_, _, _, _, _)
big_mul_add(x, i, m, carry, out) ==
    IF i > Len(x)
    THEN [limbs |-> out, carry |-> carry]
    ELSE LET cur == x[i] * m + carry
         IN  big_mul_add(x, i + 1, m, cur \div LimbBase, Append(out, cur % LimbBase))

BigMulAdd(x, m, a) == big_mul_add(x, 1, m, a, <<>>)

\* x div d and x mod d as [quot, rem], d small
RECURSIVE big_div_mod(_, _, _, _, _)
big_div_mod(x, i, d, rem, out) ==
    IF i < 1
    THEN [quot |-> out, rem |-> rem]
    ELSE LET cur == rem * LimbBase + x[i]
         IN  big_div_mod(x, i - 1, d, cur % d, <<cur \div d>> \o out)

BigDivMod(x, d) == big_div_mod(x, Len(x), d, 0, <<>>)

(***************************************************************************)
(* Decimal text, as the standard library formats and parses it.            *)
(***************************************************************************)
DigitChars == <<"0", "1", "2", "3", "4", "5", "6", "7", "8", "9">>

IsDigit(c) == \E d \in 1..10 : DigitChars[d] = c

DigitVal(c) == (CHOOSE d \in 1..10 : DigitChars[d] = c) - 1

\* the digits of a non-zero number, most significant first
RECURSIVE fmt_digits(_)
fmt_digits(x) ==
    IF BigIsZero(x)
    THEN <<>>
    ELSE LET qr == BigDivMod(x, 10)
         IN  Append(fmt_digits(qr.quot), DigitChars[qr.rem + 1])

\* "{}" of an unsigned integer
fmt_uint(x) == IF BigIsZero(x) THEN <<"0">> ELSE fmt_digits(x)

RECURSIVE parse_fold(_, _, _)
parse_fold(digits, i, acc) ==
    IF i > Len(digits)
    THEN Some(acc)
    ELSE LET r == BigMulAdd(acc, 10, DigitVal(digits[i]))
         IN  IF r.carry # 0 THEN None ELSE parse_fold(digits, i + 1, r.limbs)

\* str::parse::<u64>: an optional "+", then at least one digit, digits only,
\* and a value below 2^64
parse_u64(chars) ==
    IF Len(chars) = 0
    THEN None
    ELSE LET digits == IF chars[1] = "+" THEN Tail(chars) ELSE chars
         IN  IF Len(digits) = 0 \/ \E i \in 1..Len(digits) : ~IsDigit(digits[i])
             THEN None
             ELSE parse_fold(digits, 1, <<0, 0, 0, 0>>)

\* str::split on a one-character separator
RECURSIVE split(_, _)
split(chars, sep) ==
    IF \A i \in 1..Len(chars) : chars[i] # sep
    THEN <<chars>>
    ELSE LET i == CHOOSE k \in 1..Len(chars) :
                      chars[k] = sep /\ \A j \in 1..(k - 1) : chars[j] # sep
         IN  <<SubSeq(chars, 1, i - 1)>> \o split(SubSeq(chars, i + 1, Len(chars)), sep)

starts_with(chars, prefix) ==
    Len(chars) >= Len(prefix) /\ SubSeq(chars, 1, Len(prefix)) = prefix

(***************************************************************************)
(* src/src/values/structs/security.rs: Sid                                 *)
(***************************************************************************)
\* bytes[i] with the 0-based index of the source
At(bytes, i) == bytes[i + 1]

u32_from_le_bytes(b) == <<b[1] + 256 * b[2], b[3] + 256 * b[4]>>

u16_from_le_bytes(b) == b[1] + 256 * b[2]

Sid_subauthority_count_from_slice(bytes) ==
    IF Len(bytes) < 8 THEN None
    ELSE IF At(bytes, 0) # 1 THEN None
    ELSE IF Len(bytes) < 8 + 4 * At(bytes, 1) THEN None
    ELSE Some(At(bytes, 1))

Sid_get_length(bytes) ==
    LET count == Sid_subauthority_count_from_slice(bytes)
    IN  IF ~IsSome(count) THEN None
        ELSE IF Len(bytes) < 8 + 4 * Unwrap(count) THEN None
        ELSE Some(8 + 4 * Unwrap(count))

\* the big-endian 48-bit authority of bytes[2..8] as a u64
Sid_authority(bytes) ==
    <<At(bytes, 6) * 256 + At(bytes, 7),
      At(bytes, 4) * 256 + At(bytes, 5),
      At(bytes, 2) * 256 + At(bytes, 3),
      0>>

\* the fields of a slice whose size has been checked
Sid_fields(bytes, subauthority_count) ==
    [version |-> 1,
     authority |-> Sid_authority(bytes),
     subauthorities |->
        [i \in 1..subauthority_count |->
            u32_from_le_bytes(Slice(bytes, 8 + 4 * (i - 1), 8 + 4 * (i - 1) + 4))]]

\* a decoder that takes the size check of get_length: trailing bytes pass
Sid_try_from_bytes_trailing(bytes) ==
    LET count == Sid_subauthority_count_from_slice(bytes)
    IN  IF ~IsSome(count) THEN None
        ELSE IF Len(bytes) < 8 + 4 * Unwrap(count) THEN None
        ELSE Some(Sid_fields(bytes, Unwrap(count)))

Sid_try_from_bytes(bytes) ==
    LET count == Sid_subauthority_count_from_slice(bytes)
    IN  IF ~IsSome(count) THEN None
        ELSE IF Len(bytes) # 8 + 4 * Unwrap(count) THEN None
        ELSE Some(Sid_fields(bytes, Unwrap(count)))

RECURSIVE fmt_subauthorities(_, _)
fmt_subauthorities(subs, i) ==
    IF i > Len(subs) THEN <<>>
    ELSE <<"-">> \o fmt_uint(subs[i]) \o fmt_subauthorities(subs, i + 1)

\* impl Display for Sid
Sid_to_string(sid) ==
    <<"S", "-">> \o fmt_uint(<<sid.version>>) \o <<"-">> \o fmt_uint(sid.authority)
        \o fmt_subauthorities(sid.subauthorities, 1)

U48Max == <<65535, 65535, 65535, 0>>
U32Max == <<65535, 65535, 0, 0>>
U56Max == <<65535, 65535, 65535, 255>>

\* a top authority check against 56 bits
top_authority_too_big_56(authority) == BigGreater(authority, U56Max)

\* authority > 0x0000FFFF_FFFFFFFF
top_authority_too_big(authority) == BigGreater(authority, U48Max)

\* a sub-authority check that turns 0xFFFFFFFF away
subauthority_too_big_ge(authority) == ~BigGreater(U32Max, authority)

\* authority > 0xFFFFFFFF
subauthority_too_big(authority) == BigGreater(authority, U32Max)

\* the for loop of from_str over the numbers from index i on:
\* Ok(<<top authority, sub-authorities>>) or Err
RECURSIVE from_str_loop(_, _, _, _)
from_str_loop(parts, i, top_authority, subauthorities) ==
    IF i > Len(parts)
    THEN IF IsSome(top_authority)
         THEN Some([version |-> 1,
                    authority |-> Unwrap(top_authority),
                    subauthorities |-> subauthorities])
         ELSE None
    ELSE IF i = 1
    THEN IF parts[i] # <<"1">> THEN None
         ELSE from_str_loop(parts, i + 1, top_authority, subauthorities)
    ELSE LET authority == parse_u64(parts[i])
         IN  IF ~IsSome(authority) THEN None
             ELSE IF i = 2
             THEN IF top_authority_too_big(Unwrap(authority)) THEN None
                  ELSE from_str_loop(parts, i + 1, authority, subauthorities)
             ELSE IF subauthority_too_big(Unwrap(authority)) THEN None
                  ELSE from_str_loop(parts, i + 1, top_authority,
                           Append(subauthorities, SubSeq(Unwrap(authority), 1, 2)))

\* impl FromStr for Sid
Sid_from_str(s) ==
    IF ~starts_with(s, <<"S", "-">>)
    THEN None
    ELSE from_str_loop(split(SubSeq(s, 3, Len(s)), "-"), 1, None, <<>>)

(***************************************************************************)
(* The SID slices and texts of the model.                                  *)
(***************************************************************************)
\* all sequences over S of a length up to n
SeqsUpTo(S, n) == UNION {[1..k -> S] : k \in 0..n}

\* the concatenation of a sequence of sequences
RECURSIVE Flatten(_)
Flatten(ss) == IF Len(ss) = 0 THEN <<>> ELSE Head(ss) \o Flatten(Tail(ss))

\* authorities 5, 1, 2^48 - 1 and 2^40, big-endian
AuthorityBytes ==
    {<<0, 0, 0, 0, 0, 5>>, <<0, 0, 0, 0, 0, 1>>,
     <<255, 255, 255, 255, 255, 255>>, <<1, 0, 0, 0, 0, 0>>}

\* sub-authorities 21, 3141592653, 2^32 - 1, 0 and 512, little-endian
SubauthorityBytes ==
    {<<21, 0, 0, 0>>, <<77, 230, 64, 187>>, <<255, 255, 255, 255>>,
     <<0, 0, 0, 0>>, <<0, 2, 0, 0>>}

\* S-1-5-21-3141592653-589793238-462643383, well-formed SIDs, SIDs whose count byte disagrees with their length, SIDs
\* of another version, and SIDs with a byte too many or too few
SidByteInputs ==
    {<<>>, <<1>>,
     <<1, 4, 0, 0, 0, 0, 0, 5, 21, 0, 0, 0, 77, 230, 64, 187,
       214, 135, 39, 35, 183, 96, 147, 27>>} \cup
    {SubSeq(full, 1, Len(full) - cut) :
        full \in {<<version, count>> \o authority \o Flatten(subs) \o extra :
                    version \in {1, 2},
                    count \in 0..(MaxSubs + 1),
                    authority \in AuthorityBytes,
                    subs \in SeqsUpTo(SubauthorityBytes, MaxSubs),
                    extra \in {<<>>, <<0>>}},
        cut \in {0, 1}}

\* the characters of a sequence of decimal digits
Digits(ds) == [i \in 1..Len(ds) |-> DigitChars[ds[i] + 1]]

\* what may stand between two dashes: small numbers, a number with a leading
\* zero or a plus sign, no number at all, and the numbers at 2^32, 2^48, 2^64
NumberTexts ==
    {Digits(<<0>>), Digits(<<5>>), Digits(<<2, 1>>), Digits(<<0, 5>>),
     <<"+", "7">>, <<>>, <<"x">>,
     Digits(<<4, 2, 9, 4, 9, 6, 7, 2, 9, 5>>),
     Digits(<<4, 2, 9, 4, 9, 6, 7, 2, 9, 6>>),
     Digits(<<2, 8, 1, 4, 7, 4, 9, 7, 6, 7, 1, 0, 6, 5, 5>>),
     Digits(<<2, 8, 1, 4, 7, 4, 9, 7, 6, 7, 1, 0, 6, 5, 6>>),
     Digits(<<1, 8, 4, 4, 6, 7, 4, 4, 0, 7, 3, 7, 0, 9, 5, 5, 1, 6, 1, 5>>),
     Digits(<<1, 8, 4, 4, 6, 7, 4, 4, 0, 7, 3, 7, 0, 9, 5, 5, 1, 6, 1, 6>>)}

TextPrefixes ==
    {<<"S", "-", "1", "-">>, <<"S", "-", "1">>, <<"S", "-">>, <<>>,
     <<"S", "-", "2", "-">>, <<"s", "-", "1", "-">>, <<"S", "-", "0", "1", "-">>}

\* the numbers joined by dashes
RECURSIVE JoinDash(_)
JoinDash(parts) ==
    IF Len(parts) = 0 THEN <<>>
    ELSE IF Len(parts) = 1 THEN parts[1]
    ELSE parts[1] \o <<"-">> \o JoinDash(Tail(parts))

SidTexts ==
    {prefix \o JoinDash(parts) :
        prefix \in TextPrefixes, parts \in SeqsUpTo(NumberTexts, MaxParts)}

SidInit ==
    /\ OidIdle
    /\ AclIdle
    /\ SdIdle
    /\ RestIdle
    /\ sid_decoded = None
    /\ sid_parsed = None
    /\ \/ /\ sid_origin = "bytes"
          /\ sid_bytes \in SidByteInputs
          /\ sid_text = <<>>
          /\ sid_pc = "bytes"
       \/ /\ sid_origin = "text"
          /\ sid_bytes = <<>>
          /\ sid_text \in SidTexts
          /\ sid_pc = "text"

\* Sid::try_from_bytes on the slice
SidDecode ==
    /\ sid_pc = "bytes"
    /\ sid_decoded' = Sid_try_from_bytes(sid_bytes)
    /\ sid_pc' = IF IsSome(sid_decoded') THEN "decoded" ELSE "absent"
    /\ UNCHANGED <<sid_origin, sid_bytes, sid_text, sid_parsed>>
    /\ UNCHANGED non_sid_vars

\* to_string() of the decoded Sid
SidDisplay ==
    /\ sid_pc = "decoded"
    /\ sid_text' = Sid_to_string(Unwrap(sid_decoded))
    /\ sid_pc' = "text"
    /\ UNCHANGED <<sid_origin, sid_bytes, sid_decoded, sid_parsed>>
    /\ UNCHANGED non_sid_vars

\* Sid::from_str on the text
SidParse ==
    /\ sid_pc = "text"
    /\ sid_parsed' = Sid_from_str(sid_text)
    /\ sid_pc' = "parsed"
    /\ UNCHANGED <<sid_origin, sid_bytes, sid_decoded, sid_text>>
    /\ UNCHANGED non_sid_vars

SidNext ==
    \/ SidDecode
    \/ SidDisplay
    \/ SidParse

SpecSid == SidInit /\ [][SidNext]_vars

(***************************************************************************)
(* SIDs, stated from the slice and the text alone.                         *)
(***************************************************************************)
\* byte k (0 the least significant) of a number of 16-bit limbs
ByteOf(x, k) == (x[(k \div 2) + 1] \div (IF k % 2 = 0 THEN 1 ELSE 256)) % 256

\* S-1-5-21-3141592653-589793238-462643383 as a slice and as a text
ExampleSidBytes ==
    <<1, 4, 0, 0, 0, 0, 0, 5, 21, 0, 0, 0, 77, 230, 64, 187,
      214, 135, 39, 35, 183, 96, 147, 27>>

ExampleSidText ==
    <<"S", "-", "1", "-", "5", "-", "2", "1", "-">>
        \o Digits(<<3, 1, 4, 1, 5, 9, 2, 6, 5, 3>>) \o <<"-">>
        \o Digits(<<5, 8, 9, 7, 9, 3, 2, 3, 8>>) \o <<"-">>
        \o Digits(<<4, 6, 2, 6, 4, 3, 3, 8, 3>>)

\* the size rule of the SID layout
SidWellSized(b) ==
    /\ Len(b) >= 8
    /\ b[1] = 1
    /\ Len(b) = 8 + 4 * b[2]

\* C4: Sid::try_from_bytes succeeds exactly on a slice of at least 8 bytes
\* with version 1 and a length of 8 + 4 * count; the authority is then bytes
\* 2..8 big-endian and sub-authority i the 4 bytes at 8 + 4*i little-endian.
C4_SidDecode ==
    (sid_origin = "bytes" /\ sid_pc # "bytes") =>
        /\ IsSome(sid_decoded) <=> SidWellSized(sid_bytes)
        /\ IsSome(sid_decoded) =>
            LET sid == Unwrap(sid_decoded)
            IN  /\ sid.version = 1
                /\ \A k \in 0..5 : ByteOf(sid.authority, k) = sid_bytes[8 - k]
                /\ \A k \in 6..7 : ByteOf(sid.authority, k) = 0
                /\ Len(sid.subauthorities) = sid_bytes[2]
                /\ \A i \in 1..Len(sid.subauthorities) : \A k \in 0..3 :
                       ByteOf(sid.subauthorities[i], k) = sid_bytes[8 + 4 * (i - 1) + k + 1]

\* C4 at work: a SID of two sub-authorities has been decoded, and the same
\* slice with one byte more is known to be turned away
C4_Witness ==
    /\ sid_pc = "decoded"
    /\ sid_bytes = <<1, 2, 0, 0, 0, 0, 0, 5, 21, 0, 0, 0, 77, 230, 64, 187>>
    /\ Len(Unwrap(sid_decoded).subauthorities) = 2
    /\ Sid_try_from_bytes(sid_bytes \o <<0>>) = None

\* C5: the text of a Sid decoded from a slice parses, and parses to that Sid;
\* the parsed Sid has the same text again.
C5_SidRoundTrip ==
    (sid_origin = "bytes" /\ sid_pc = "parsed") =>
        /\ IsSome(sid_parsed)
        /\ sid_parsed = sid_decoded
        /\ Sid_to_string(Unwrap(sid_parsed)) = sid_text

\* C5 at work: S-1-5-21-3141592653-589793238-462643383 has gone round
C5_Witness ==
    /\ sid_origin = "bytes"
    /\ sid_pc = "parsed"
    /\ sid_bytes = ExampleSidBytes
    /\ sid_text = ExampleSidText
    /\ sid_parsed = sid_decoded
    /\ IsSome(sid_parsed)

\* the positions of the dashes of a text
Dashes(t) == {i \in 1..Len(t) : t[i] = "-"}

\* the texts between the dashes of t, from the character at `from` on
FieldsFrom(t, from) ==
    LET ds == SortedSeq({d \in Dashes(t) : d >= from})
        start(k) == IF k = 1 THEN from ELSE ds[k - 1] + 1
        stop(k) == IF k = Len(ds) + 1 THEN Len(t) ELSE ds[k] - 1
    IN  [k \in 1..(Len(ds) + 1) |-> SubSeq(t, start(k), stop(k))]

\* a decimal numeral, with or without a plus sign
IsNumeral(f) ==
    LET ds == IF Len(f) > 0 /\ f[1] = "+" THEN Tail(f) ELSE f
    IN  Len(ds) > 0 /\ \A i \in 1..Len(ds) : IsDigit(ds[i])

RECURSIVE StripZeros(_)
StripZeros(ds) ==
    IF Len(ds) > 0 /\ ds[1] = "0" THEN StripZeros(Tail(ds)) ELSE ds

\* whether the numeral f is greater than the numeral limit (no leading zeros)
NumeralExceeds(f, limit) ==
    LET ds == StripZeros(IF f[1] = "+" THEN Tail(f) ELSE f)
    IN  \/ Len(ds) > Len(limit)
        \/ /\ Len(ds) = Len(limit)
           /\ \E i \in 1..Len(ds) :
                /\ DigitVal(ds[i]) > DigitVal(limit[i])
                /\ \A j \in 1..(i - 1) : ds[j] = limit[j]

\* 2^48 - 1 and 2^32 - 1
Max48Text == Digits(<<2, 8, 1, 4, 7, 4, 9, 7, 6, 7, 1, 0, 6, 5, 5>>)
Max32Text == Digits(<<4, 2, 9, 4, 9, 6, 7, 2, 9, 5>>)

\* the texts C6 speaks of
NotASidText(t) ==
    \/ ~starts_with(t, <<"S", "-", "1", "-">>)
    \/ LET fields == FieldsFrom(t, 5)
       IN  \/ IsNumeral(fields[1]) /\ NumeralExceeds(fields[1], Max48Text)
           \/ \E i \in 2..Len(fields) :
                IsNumeral(fields[i]) /\ NumeralExceeds(fields[i], Max32Text)

\* C6: Sid::from_str gives an error for every text that does not start with
\* "S-1-", and for every text whose authority is above 2^48 - 1 or one of
\* whose sub-authorities is above 2^32 - 1.
C6_SidTextRejected ==
    (sid_pc = "parsed" /\ NotASidText(sid_text)) => sid_parsed = None

\* C6 at work: S-1-281474976710656 (2^48) has been turned away
C6_Witness ==
    /\ sid_pc = "parsed"
    /\ sid_text = <<"S", "-", "1", "-">> \o Digits(<<2, 8, 1, 4, 7, 4, 9, 7, 6, 7, 1, 0, 6, 5, 6>>)
    /\ NotASidText(sid_text)
    /\ sid_parsed = None

(***************************************************************************)
(* Decoders that can abort.  A slice expression out of range and an        *)
(* unwrap of a failed conversion end the process: such a call gives        *)
(* Abort, neither None nor Some.                                           *)
(***************************************************************************)
Abort == <<"abort", "abort">>
IsAbort(r) == Len(r) = 2

\* the ? operator: the rest of the function on the value of a Some, and a
\* return of r itself, a None or an Abort, otherwise
Try(r, rest(_)) == IF IsSome(r) THEN rest(Unwrap(r)) ELSE r

\* a u32 read little-endian and converted to usize
usize_from_le_bytes(b) == b[1] + 256 * b[2] + 65536 * b[3] + 16777216 * b[4]

\* a bit mask as the set of the indices of its bits, from little-endian bytes
bits_from_le_bytes(b) ==
    {n \in 0..(8 * Len(b) - 1) : bit_is_set(b[(n \div 8) + 1], n % 8)}

(***************************************************************************)
(* src/src/values.rs: NUL-terminated UTF-16 strings                        *)
(***************************************************************************)
\* the loop over bytes.chunks(2): the words before the first NUL word, or
\* Abort at a chunk of a single byte
RECURSIVE utf16le_words(_, _, _)
utf16le_words(bytes, offset, words) ==
    IF offset >= Len(bytes) THEN Some(words)
    ELSE IF offset + 1 = Len(bytes) THEN Abort
    ELSE LET word == u16_from_le_bytes(Slice(bytes, offset, offset + 2))
         IN  IF word = 0 THEN Some(words)
             ELSE utf16le_words(bytes, offset + 2, Append(words, word))

IsHighSurrogate(w) == 55296 <= w /\ w <= 56319
IsLowSurrogate(w) == 56320 <= w /\ w <= 57343

\* String::from_utf16 succeeds: every surrogate is half of a pair
utf16_valid(words) ==
    \A i \in 1..Len(words) :
        /\ IsHighSurrogate(words[i]) => (i < Len(words) /\ IsLowSurrogate(words[i + 1]))
        /\ IsLowSurrogate(words[i]) => (i > 1 /\ IsHighSurrogate(words[i - 1]))

\* a String is kept as its UTF-16 code units
nul_terminated_utf16le_string(bytes) ==
    LET words == utf16le_words(bytes, 0, <<>>)
    IN  IF IsAbort(words) THEN Abort
        ELSE IF utf16_valid(Unwrap(words)) THEN words
        ELSE None

(***************************************************************************)
(* src/src/values/structs/security.rs: ClaimSecurityAttribute1             *)
(***************************************************************************)
\* the character of a code unit: the characters Sid::from_str tells apart
\* (S, -, +, the digits) and one character for all the others
CharOfUnit(w) ==
    IF w = 83 THEN "S"
    ELSE IF w = 45 THEN "-"
    ELSE IF w = 43 THEN "+"
    ELSE IF 48 <= w /\ w <= 57 THEN DigitChars[w - 47]
    ELSE "?"

\* the loop that collects the value offsets: Some(offsets) or None
RECURSIVE claim_offsets(_, _, _, _)
claim_offsets(bytes, value_count, i, offsets) ==
    IF i >= value_count THEN Some(offsets)
    ELSE LET offset_offset == 16 + 4 * i
         IN  IF offset_offset + 4 > Len(bytes) THEN None
             ELSE LET offset == usize_from_le_bytes(Slice(bytes, offset_offset, offset_offset + 4))
                  IN  IF offset >= Len(bytes) THEN None
                      ELSE claim_offsets(bytes, value_count, i + 1, Append(offsets, offset))

\* one value of the given type at the given offset: Some(value), None or Abort
claim_value(bytes, value_type, offset) ==
    IF value_type \in {1, 2}
    THEN IF offset + 8 > Len(bytes) THEN None
         ELSE Some(Slice(bytes, offset, offset + 8))
    ELSE IF value_type = 3
    THEN nul_terminated_utf16le_string(SliceFrom(bytes, offset))
    ELSE IF value_type = 5
    THEN LET sid_string == nul_terminated_utf16le_string(SliceFrom(bytes, offset))
         IN  IF ~IsSome(sid_string) THEN sid_string
             ELSE Sid_from_str([i \in 1..Len(Unwrap(sid_string)) |->
                                    CharOfUnit(Unwrap(sid_string)[i])])
    ELSE IF value_type = 6
    THEN IF offset + 8 > Len(bytes) THEN None
         ELSE LET numeric_value == Slice(bytes, offset, offset + 8)
              IN  IF numeric_value = <<1, 0, 0, 0, 0, 0, 0, 0>> THEN Some(TRUE)
                  ELSE IF numeric_value = <<0, 0, 0, 0, 0, 0, 0, 0>> THEN Some(FALSE)
                  ELSE None
    ELSE IF value_type = 16
    THEN IF offset + 4 > Len(bytes) THEN None
         ELSE LET data_length == usize_from_le_bytes(Slice(bytes, offset, offset + 4))
              IN  IF offset + 4 + data_length > Len(bytes) THEN None
                  ELSE Some(Slice(bytes, offset + 4, offset + 4 + data_length))
    ELSE None

\* the loop over the offsets: Some(values), or the first None or Abort
RECURSIVE claim_values(_, _, _, _, _)
claim_values(bytes, value_type, offsets, i, values) ==
    IF i > Len(offsets) THEN Some(values)
    ELSE Try(claim_value(bytes, value_type, offsets[i]),
             LAMBDA value : claim_values(bytes, value_type, offsets, i + 1,
                                         Append(values, value)))

ClaimSecurityAttribute1_try_from_bytes(bytes) ==
    IF Len(bytes) < 16 THEN None
    ELSE LET name_offset == usize_from_le_bytes(Slice(bytes, 0, 4))
             value_type == u16_from_le_bytes(Slice(bytes, 4, 6))
             reserved == u16_from_le_bytes(Slice(bytes, 6, 8))
             flags == bits_from_le_bytes(Slice(bytes, 8, 12))
             value_count == usize_from_le_bytes(Slice(bytes, 12, 16))
         IN  IF name_offset >= Len(bytes) THEN None
             ELSE LET name == nul_terminated_utf16le_string(SliceFrom(bytes, name_offset))
                  IN  IF ~IsSome(name) THEN name
                      ELSE LET offsets == claim_offsets(bytes, value_count, 0, <<>>)
                           IN  IF ~IsSome(offsets) THEN None
                               ELSE IF value_type \notin {1, 2, 3, 5, 6, 16} THEN None
                               ELSE Try(claim_values(bytes, value_type,
                                                     Unwrap(offsets), 1, <<>>),
                                        LAMBDA values :
                                            Some([name |-> Unwrap(name),
                                                  reserved |-> reserved,
                                                  flags |-> flags,
                                                  value_type |-> value_type,
                                                  values |-> values]))

(***************************************************************************)
(* src/src/values/structs/security.rs: Ace                                 *)
(***************************************************************************)
\* the variant of AceData a type byte decodes to
AceKind(ace_type) ==
    CASE ace_type = 0 -> "AccessAllowed"
      [] ace_type = 1 -> "AccessDenied"
      [] ace_type = 2 -> "SystemAudit"
      [] ace_type = 5 -> "AccessAllowedObject"
      [] ace_type = 6 -> "AccessDeniedObject"
      [] ace_type = 7 -> "SystemAuditObject"
      [] ace_type = 9 -> "AccessAllowedCallback"
      [] ace_type = 10 -> "AccessDeniedCallback"
      [] ace_type = 11 -> "AccessAllowedCallbackObject"
      [] ace_type = 12 -> "AccessDeniedCallbackObject"
      [] ace_type = 13 -> "SystemAuditCallback"
      [] ace_type = 15 -> "SystemAuditCallbackObject"
      [] ace_type = 17 -> "SystemMandatoryLabel"
      [] ace_type = 18 -> "SystemResourceAttribute"
      [] ace_type = 19 -> "SystemScopedPolicyId"
      [] OTHER -> "Other"

\* struct Ace with its AceData: the fields a variant lacks are None, and
\* other_kind is the type byte of Other
MkAce(ace_type, flags, mask, object_flags, object_type, inherited_object_type, sid, attribute_data, application_data) ==
    [flags |-> flags,
     data |-> [kind |-> AceKind(ace_type),
               other_kind |-> IF AceKind(ace_type) = "Other" THEN Some(ace_type) ELSE None,
               mask |-> mask,
               object_flags |-> object_flags,
               object_type |-> object_type,
               inherited_object_type |-> inherited_object_type,
               sid |-> sid,
               attribute_data |-> attribute_data],
     application_data |-> application_data]

Ace_get_length(bytes) ==
    IF Len(bytes) < 4 THEN None
    ELSE Some(u16_from_le_bytes(Slice(bytes, 2, 4)))

\* the arm of the types 0x00, 0x01, 0x02, 0x09, 0x0A, 0x0D, 0x13 and, with a
\* mandatory mask, of the type 0x11: mask and SID, the rest application data
Ace_mask_sid(ace_type, flags, payload) ==
    IF Len(payload) < 4 THEN None
    ELSE LET mask == bits_from_le_bytes(Slice(payload, 0, 4))
             sid_size == Sid_get_length(SliceFrom(payload, 4))
         IN  IF ~IsSome(sid_size) THEN None
             ELSE LET sid == Sid_try_from_bytes(Slice(payload, 4, 4 + Unwrap(sid_size)))
                  IN  IF ~IsSome(sid) THEN None
                      ELSE Some(MkAce(ace_type, flags, Some(mask), None, None, None, sid, None,
                                      SliceFrom(payload, 4 + Unwrap(sid_size))))

\* an arm for the object types that reads no object flags and no GUIDs
Ace_object_ungated(ace_type, flags, payload) == Ace_mask_sid(ace_type, flags, payload)

\* the arm of the types 0x05, 0x06, 0x07, 0x0B, 0x0C, 0x0F: mask, object
\* flags, the GUIDs the object flags announce, SID
Ace_object(ace_type, flags, payload) ==
    IF Len(payload) < 8 THEN None
    ELSE LET mask == bits_from_le_bytes(Slice(payload, 0, 4))
             object_flags == bits_from_le_bytes(Slice(payload, 4, 8))
             has_object_type == 0 \in object_flags
             has_inherited == 1 \in object_flags
             offset1 == 8
             offset2 == IF has_object_type THEN offset1 + 16 ELSE offset1
             offset3 == IF has_inherited THEN offset2 + 16 ELSE offset2
         IN  IF has_object_type /\ Len(payload) - offset1 < 16 THEN None
             ELSE IF has_inherited /\ Len(payload) - offset2 < 16 THEN None
             ELSE LET object_type == IF has_object_type
                                     THEN Some(Slice(payload, offset1, offset1 + 16))
                                     ELSE None
                      inherited_object_type == IF has_inherited
                                               THEN Some(Slice(payload, offset2, offset2 + 16))
                                               ELSE None
                      sid_size == Sid_get_length(SliceFrom(payload, offset3))
                  IN  IF ~IsSome(sid_size) THEN None
                      ELSE LET sid == Sid_try_from_bytes(
                                        Slice(payload, offset3, offset3 + Unwrap(sid_size)))
                           IN  IF ~IsSome(sid) THEN None
                               ELSE Some(MkAce(ace_type, flags, Some(mask), Some(object_flags),
                                               object_type, inherited_object_type, sid, None,
                                               SliceFrom(payload, offset3 + Unwrap(sid_size))))

\* the arm of the type 0x12: mask, SID and a ClaimSecurityAttribute1
Ace_resource_attribute(ace_type, flags, payload) ==
    IF Len(payload) < 4 THEN None
    ELSE LET mask == bits_from_le_bytes(Slice(payload, 0, 4))
             sid_size == Sid_get_length(SliceFrom(payload, 4))
         IN  IF ~IsSome(sid_size) THEN None
             ELSE LET sid == Sid_try_from_bytes(Slice(payload, 4, 4 + Unwrap(sid_size)))
                  IN  IF ~IsSome(sid) THEN None
                      ELSE Try(ClaimSecurityAttribute1_try_from_bytes(
                                    SliceFrom(payload, 4 + Unwrap(sid_size))),
                               LAMBDA attribute_data :
                                   Some(MkAce(ace_type, flags, Some(mask), None, None, None,
                                              sid, Some(attribute_data), <<>>)))

\* Some(ace), None, or Abort
Ace_try_from_bytes(bytes) ==
    IF Len(bytes) < 4 THEN None
    ELSE LET ace_type == At(bytes, 0)
             flags == bits_from_le_bytes(<<At(bytes, 1)>>)
             ace_size == u16_from_le_bytes(Slice(bytes, 2, 4))
             payload == SliceFrom(bytes, 4)
         IN  IF ace_size # Len(bytes) THEN None
             ELSE IF ace_type \in {0, 1, 2, 9, 10, 13, 19}
             THEN Ace_mask_sid(ace_type, flags, payload)
             ELSE IF ace_type \in {5, 6, 7, 11, 12, 15}
             THEN Ace_object(ace_type, flags, payload)
             ELSE IF ace_type = 17
             THEN Ace_mask_sid(ace_type, flags, payload)
             ELSE IF ace_type = 18
             THEN Ace_resource_attribute(ace_type, flags, payload)
             ELSE Some(MkAce(ace_type, flags, None, None, None, None, None, None,
                             SliceFrom(bytes, 4)))

(***************************************************************************)
(* src/src/values/structs/security.rs: Acl                                 *)
(***************************************************************************)
\* AclRevision::from gives Revision for 0x02, Ds for 0x04 and Other for the rest
AclRevision_is_other(revision) == revision \notin {2, 4}

Acl_get_length(bytes) ==
    IF Len(bytes) < 8 THEN None
    ELSE IF AclRevision_is_other(At(bytes, 0)) THEN None
    ELSE Some(u16_from_le_bytes(Slice(bytes, 2, 4)))

\* the for loop of Acl::try_from_bytes from the i-th ACE on:
\* Some(entries), None or Abort
RECURSIVE Acl_entries(_, _, _, _, _)
Acl_entries(bytes, ace_count, i, current_offset, entries) ==
    IF i >= ace_count THEN Some(entries)
    ELSE LET ace_size == Ace_get_length(SliceFrom(bytes, current_offset))
         IN  IF ~IsSome(ace_size) THEN None
             ELSE IF current_offset + Unwrap(ace_size) > Len(bytes) THEN None
             ELSE Try(Ace_try_from_bytes(
                        Slice(bytes, current_offset, current_offset + Unwrap(ace_size))),
                      LAMBDA ace : Acl_entries(bytes, ace_count, i + 1,
                                               current_offset + Unwrap(ace_size),
                                               Append(entries, ace)))

\* Some(acl), None or Abort
Acl_try_from_bytes(bytes) ==
    IF Len(bytes) < 8 THEN None
    ELSE IF AclRevision_is_other(At(bytes, 0)) THEN None
    ELSE IF Len(bytes) # u16_from_le_bytes(Slice(bytes, 2, 4)) THEN None
    ELSE Try(Acl_entries(bytes, u16_from_le_bytes(Slice(bytes, 4, 6)), 0, 8, <<>>),
             LAMBDA entries : Some([revision |-> At(bytes, 0),
                                    sbz1 |-> At(bytes, 1),
                                    sbz2 |-> u16_from_le_bytes(Slice(bytes, 6, 8)),
                                    entries |-> entries]))

(***************************************************************************)
(* src/src/values/structs/security.rs: SecurityDescriptor                  *)
(***************************************************************************)
\* the bits of SecurityDescriptorControl
OwnerDefaulted == 0
GroupDefaulted == 1
DaclPresent == 2
DaclDefaulted == 3
SaclPresent == 4
SaclDefaulted == 5
DaclAutoInheritReq == 8
SaclAutoInheritReq == 9
DaclAutoInherited == 10
SaclAutoInherited == 11
DaclProtected == 12
SaclProtected == 13
RmControlValid == 14
SelfRelative == 15

\* the if expression of the owner or the group: Some(field) with the
\* Option<Sid> of the field, or None or Abort for a return
sd_sid_at(bytes, offset) ==
    IF offset = 0 THEN Some(None)
    ELSE IF offset >= Len(bytes) THEN None
    ELSE LET sid_size == Sid_get_length(SliceFrom(bytes, offset))
         IN  IF ~IsSome(sid_size) THEN None
             ELSE IF ~SliceOk(bytes, offset, offset + Unwrap(sid_size)) THEN Abort
             ELSE Try(Sid_try_from_bytes(Slice(bytes, offset, offset + Unwrap(sid_size))),
                      LAMBDA sid : Some(Some(sid)))

\* the if expression of the SACL or the DACL: Some(field) with the
\* Option<Acl> of the field, or None or Abort for a return
sd_acl_at(bytes, offset) ==
    IF offset = 0 THEN Some(None)
    ELSE IF offset >= Len(bytes) THEN None
    ELSE LET acl_size == Acl_get_length(SliceFrom(bytes, offset))
         IN  IF ~IsSome(acl_size) THEN None
             ELSE IF ~SliceOk(bytes, offset, offset + Unwrap(acl_size)) THEN Abort
             ELSE Try(Acl_try_from_bytes(Slice(bytes, offset, offset + Unwrap(acl_size))),
                      LAMBDA acl : Some(Some(acl)))

\* Some(sd), None or Abort; a field of sd is None or Some
SecurityDescriptor_try_from_bytes(bytes) ==
    IF Len(bytes) < 20 THEN None
    ELSE IF At(bytes, 0) # 1 THEN None
    ELSE IF SelfRelative \notin bits_from_le_bytes(Slice(bytes, 2, 4)) THEN None
    ELSE
      Try(sd_sid_at(bytes, usize_from_le_bytes(Slice(bytes, 4, 8))), LAMBDA owner :
      Try(sd_sid_at(bytes, usize_from_le_bytes(Slice(bytes, 8, 12))), LAMBDA group :
      Try(sd_acl_at(bytes, usize_from_le_bytes(Slice(bytes, 12, 16))), LAMBDA sacl :
      Try(sd_acl_at(bytes, usize_from_le_bytes(Slice(bytes, 16, 20))), LAMBDA dacl :
          Some([revision |-> At(bytes, 0),
                sbz1 |-> At(bytes, 1),
                control |-> bits_from_le_bytes(Slice(bytes, 2, 4)),
                owner |-> owner,
                group |-> group,
                sacl |-> sacl,
                dacl |-> dacl])))))

(***************************************************************************)
(* src/src/values/structs/security.rs: the SDDL renderer.  A String is a   *)
(* sequence of pieces (codes, punctuation, characters) in writing order.   *)
(***************************************************************************)
\* the table of Sid::as_well_known_sddl_sid_string: authority,
\* sub-authorities, alias
\* a table with the alias of the creator owner for the creator group as well
WellKnownSids_creator_group_as_owner ==
    {<<1, <<0>>, "WD">>, <<3, <<0>>, "CO">>, <<3, <<1>>, "CO">>, <<3, <<4>>, "OW">>}

\* the table with an alias for the domain administrators of one domain
WellKnownSids_domain_admins ==
    {<<1, <<0>>, "WD">>, <<5, <<21, 7, 8, 9, 512>>, "DA">>}

WellKnownSids ==
    {<<1, <<0>>, "WD">>,
     <<3, <<0>>, "CO">>, <<3, <<1>>, "CG">>, <<3, <<4>>, "OW">>,
     <<5, <<2>>, "NU">>, <<5, <<4>>, "IU">>, <<5, <<6>>, "SU">>, <<5, <<7>>, "AN">>,
     <<5, <<9>>, "ED">>, <<5, <<10>>, "PS">>, <<5, <<11>>, "AU">>, <<5, <<12>>, "RC">>,
     <<5, <<18>>, "SY">>, <<5, <<19>>, "LS">>, <<5, <<20>>, "NS">>, <<5, <<33>>, "WR">>,
     <<5, <<32, 544>>, "BA">>, <<5, <<32, 545>>, "BU">>, <<5, <<32, 546>>, "BG">>,
     <<5, <<32, 547>>, "PU">>, <<5, <<32, 548>>, "AO">>, <<5, <<32, 549>>, "SO">>,
     <<5, <<32, 550>>, "PO">>, <<5, <<32, 551>>, "BO">>, <<5, <<32, 552>>, "RE">>,
     <<5, <<32, 553>>, "RS">>, <<5, <<32, 554>>, "RU">>, <<5, <<32, 555>>, "RD">>,
     <<5, <<32, 556>>, "NO">>, <<5, <<32, 558>>, "MU">>, <<5, <<32, 559>>, "LU">>,
     <<5, <<32, 568>>, "IS">>, <<5, <<32, 569>>, "CY">>, <<5, <<32, 573>>, "ER">>,
     <<5, <<32, 574>>, "CD">>, <<5, <<32, 575>>, "RA">>, <<5, <<32, 576>>, "ES">>,
     <<5, <<32, 578>>, "HA">>, <<5, <<32, 579>>, "AA">>, <<5, <<32, 584>>, "HO">>,
     <<15, <<2, 1>>, "AC">>,
     <<16, <<4096>>, "LW">>, <<16, <<8192>>, "ME">>, <<16, <<8448>>, "MP">>,
     <<16, <<12288>>, "HI">>, <<16, <<16384>>, "SI">>,
     <<18, <<2>>, "SS">>}

Sid_as_well_known_sddl_sid_string(sid) ==
    LET matches == {e \in WellKnownSids :
                        /\ sid.authority = <<e[1], 0, 0, 0>>
                        /\ Len(sid.subauthorities) = Len(e[2])
                        /\ \A i \in 1..Len(e[2]) : sid.subauthorities[i] = <<e[2][i], 0>>}
    IN  IF sid.version # 1 \/ matches = {} THEN None
        ELSE Some((CHOOSE e \in matches : TRUE)[3])

Sid_to_sddl_sid_string(sid) ==
    LET alias == Sid_as_well_known_sddl_sid_string(sid)
    IN  IF IsSome(alias) THEN <<Unwrap(alias)>> ELSE Sid_to_string(sid)

HexChars == <<"0", "1", "2", "3", "4", "5", "6", "7", "8", "9",
              "a", "b", "c", "d", "e", "f">>

HexByte(b) == <<HexChars[(b \div 16) + 1], HexChars[(b % 16) + 1]>>

\* "{}" of Uuid::from_slice_le(b): the first three fields little-endian
fmt_uuid_le(b) ==
    HexByte(b[4]) \o HexByte(b[3]) \o HexByte(b[2]) \o HexByte(b[1]) \o <<"-">>
        \o HexByte(b[6]) \o HexByte(b[5]) \o <<"-">>
        \o HexByte(b[8]) \o HexByte(b[7]) \o <<"-">>
        \o HexByte(b[9]) \o HexByte(b[10]) \o <<"-">>
        \o HexByte(b[11]) \o HexByte(b[12]) \o HexByte(b[13])
        \o HexByte(b[14]) \o HexByte(b[15]) \o HexByte(b[16])

\* the bits AceFlags, AccessMask and MandatoryMask name: truncate() keeps them
AceFlagsKnown == {0, 1, 2, 3, 4, 6, 7}
AccessMaskKnown == (0..8) \cup (16..19)
MandatoryMaskKnown == {0, 1, 2}

\* a truncate() of AceFlags that takes bit 5 for a flag
truncate_flags_all(flags) == flags \cap (0..7)

truncate_flags(flags) == flags \cap AceFlagsKnown

truncate_access(mask) == mask \cap AccessMaskKnown

truncate_mandatory(mask) == mask \cap MandatoryMaskKnown

\* the codes, in the order of the source's if statements, of the bits in mask
CodesOf(mask, table) ==
    LET In(e) == e[1] \in mask
        chosen == SelectSeq(table, In)
    IN  [i \in 1..Len(chosen) |-> chosen[i][2]]

\* the flag codes with OI written before CI
AceFlagCodes_oi_first ==
    <<<<0, "OI">>, <<1, "CI">>, <<2, "NP">>, <<3, "IO">>, <<4, "ID">>,
      <<6, "SA">>, <<7, "FA">>>>

AceFlagCodes ==
    <<<<1, "CI">>, <<0, "OI">>, <<2, "NP">>, <<3, "IO">>, <<4, "ID">>,
      <<6, "SA">>, <<7, "FA">>>>

AccessMaskCodes ==
    <<<<0, "CC">>, <<1, "DC">>, <<2, "LC">>, <<3, "SW">>, <<4, "RP">>, <<5, "WP">>,
      <<6, "DT">>, <<7, "LO">>, <<8, "CR">>, <<16, "SD">>, <<17, "RC">>,
      <<18, "WD">>, <<19, "WO">>>>

MandatoryMaskCodes == <<<<1, "NR">>, <<0, "NW">>, <<2, "NX">>>>

\* the match on ace.data that picks the type code, None for return None
ace_type_code(kind) ==
    CASE kind = "AccessAllowed" -> Some("A")
      [] kind = "AccessDenied" -> Some("D")
      [] kind = "SystemAudit" -> Some("AU")
      [] kind = "AccessAllowedObject" -> Some("OA")
      [] kind = "AccessDeniedObject" -> Some("OD")
      [] kind = "SystemAuditObject" -> Some("OU")
      [] kind = "AccessAllowedCallback" -> Some("XA")
      [] kind = "AccessDeniedCallback" -> Some("XD")
      [] kind = "AccessAllowedCallbackObject" -> Some("ZA")
      [] kind = "AccessDeniedCallbackObject" -> None
      [] kind = "SystemAuditCallback" -> Some("XU")
      [] kind = "SystemAuditCallbackObject" -> None
      [] kind = "SystemMandatoryLabel" -> Some("ML")
      [] kind = "SystemResourceAttribute" -> Some("RA")
      [] kind = "SystemScopedPolicyId" -> Some("SP")
      [] OTHER -> None

AceData_access_mask(data) ==
    IF data.kind \in {"SystemMandatoryLabel", "Other"} THEN None ELSE data.mask

\* the rights field of an ACE: Some(codes), or None for return None
ace_rights(data) ==
    LET mask == AceData_access_mask(data)
    IN  IF IsSome(mask)
        THEN IF Unwrap(mask) # truncate_access(Unwrap(mask)) THEN None
             ELSE Some(CodesOf(Unwrap(mask), AccessMaskCodes))
        ELSE IF data.kind = "SystemMandatoryLabel"
        THEN IF Unwrap(data.mask) # truncate_mandatory(Unwrap(data.mask)) THEN None
             ELSE Some(CodesOf(Unwrap(data.mask), MandatoryMaskCodes))
        ELSE None

\* a renderer of one ACE that does not look at the application data
ace_to_string_any_data(ace) ==
    LET code == ace_type_code(ace.data.kind)
        rights == ace_rights(ace.data)
    IN  IF ~IsSome(code) THEN None
        ELSE IF ace.flags # truncate_flags(ace.flags) THEN None
        ELSE IF ~IsSome(rights) THEN None
        ELSE IF ~IsSome(ace.data.sid) THEN None
        ELSE Some(<<"(", Unwrap(code), ";">> \o CodesOf(ace.flags, AceFlagCodes) \o <<";">>
                  \o Unwrap(rights) \o <<";">>
                  \o (IF IsSome(ace.data.object_type)
                      THEN fmt_uuid_le(Unwrap(ace.data.object_type)) ELSE <<>>) \o <<";">>
                  \o (IF IsSome(ace.data.inherited_object_type)
                      THEN fmt_uuid_le(Unwrap(ace.data.inherited_object_type)) ELSE <<>>)
                  \o <<";">>
                  \o Sid_to_sddl_sid_string(Unwrap(ace.data.sid)) \o <<")">>)

\* the body of the for loop of Acl::try_to_string: what one ACE adds to ret,
\* or None for return None
ace_to_string(ace) ==
    IF Len(ace.application_data) > 0 THEN None
    ELSE ace_to_string_any_data(ace)

RECURSIVE acl_to_string_loop(_, _, _)
acl_to_string_loop(entries, i, ret) ==
    IF i > Len(entries) THEN Some(ret)
    ELSE Try(ace_to_string(entries[i]),
             LAMBDA piece : acl_to_string_loop(entries, i + 1, ret \o piece))

Acl_try_to_string(acl) == acl_to_string_loop(acl.entries, 1, <<>>)

\* what an ACL adds to ret: "D:" or "S:", the flags of the ACL, its ACEs,
\* and nothing for an ACL that is absent; None for the ? on acl.try_to_string()
sd_acl_string(acl, letter, control, protected, auto_inherit_req, auto_inherited) ==
    IF ~IsSome(acl) THEN Some(<<>>)
    ELSE Try(Acl_try_to_string(Unwrap(acl)),
             LAMBDA acl_string :
                 Some(<<letter>>
                      \o (IF protected \in control THEN <<"P">> ELSE <<>>)
                      \o (IF auto_inherit_req \in control THEN <<"AR">> ELSE <<>>)
                      \o (IF auto_inherited \in control THEN <<"AI">> ELSE <<>>)
                      \o acl_string))

\* the owner or the group: its letter and its SID, nothing if it is absent
sd_sid_string(sid, letter) ==
    IF IsSome(sid) THEN <<letter>> \o Sid_to_sddl_sid_string(Unwrap(sid)) ELSE <<>>

\* a renderer that does not look at the control bits SDDL cannot write
SecurityDescriptor_try_to_string_any_control(sd) ==
    Try(sd_acl_string(sd.dacl, "D:", sd.control,
                      DaclProtected, DaclAutoInheritReq, DaclAutoInherited), LAMBDA dacl :
    Try(sd_acl_string(sd.sacl, "S:", sd.control,
                      SaclProtected, SaclAutoInheritReq, SaclAutoInherited), LAMBDA sacl :
        Some(sd_sid_string(sd.owner, "O:") \o sd_sid_string(sd.group, "G:")
             \o dacl \o sacl)))

\* a set of control bits without RmControlValid
SddlUnsupportedControls_defaulted ==
    {OwnerDefaulted, GroupDefaulted, DaclDefaulted, SaclDefaulted}

\* the control bits try_to_string tests with intersects
SddlUnsupportedControls ==
    {OwnerDefaulted, GroupDefaulted, DaclDefaulted, SaclDefaulted, RmControlValid}

SecurityDescriptor_try_to_string(sd) ==
    IF sd.control \cap SddlUnsupportedControls # {}
    THEN None
    ELSE SecurityDescriptor_try_to_string_any_control(sd)

(***************************************************************************)
(* The ACEs and ACLs the decoders are run on.                              *)
(***************************************************************************)
\* most ACEs of an ACL whose ACEs are varied together
MaxAces == 2

Le16(n) == <<n % 256, n \div 256>>

Le32(n) == <<n % 256, (n \div 256) % 256, n \div 65536, 0>>

\* S-1-1-0, S-1-5-32-544, S-1-5-21-7 and S-1-16-4096
SidWorld == <<1, 1, 0, 0, 0, 0, 0, 1, 0, 0, 0, 0>>
SidAdmins == <<1, 2, 0, 0, 0, 0, 0, 5, 32, 0, 0, 0, 32, 2, 0, 0>>
SidDomainUser == <<1, 2, 0, 0, 0, 0, 0, 5, 21, 0, 0, 0, 7, 0, 0, 0>>
SidLowLabel == <<1, 1, 0, 0, 0, 0, 0, 16, 0, 16, 0, 0>>

GuidA == <<1, 2, 3, 4, 5, 6, 7, 8, 9, 10, 11, 12, 13, 14, 15, 16>>
GuidB == <<171, 205, 239, 0, 17, 34, 51, 68, 85, 102, 119, 136, 153, 170, 187, 204>>

\* an ACE of the given type byte, flag byte and payload, its size field right
AceBytes(ace_type, flags, payload) ==
    <<ace_type, flags>> \o Le16(4 + Len(payload)) \o payload

\* RP; every named right; bit 20; bit 31
AceMasks == {<<16, 0, 0, 0>>, <<255, 1, 15, 0>>, <<0, 0, 16, 0>>, <<0, 0, 0, 128>>}

\* none; CI; CI and ID; every named flag; bit 5; bit 5 and CI
AceFlagBytes == {0, 2, 18, 223, 32, 34}

AceSids == {SidWorld, SidAdmins, SidDomainUser}

AceApplicationData == {<<>>, <<1, 2, 3, 4>>}

\* the GUIDs the object flags announce
ObjectGuids(object_flags) ==
    (IF object_flags % 2 = 1 THEN GuidA ELSE <<>>)
        \o (IF (object_flags \div 2) % 2 = 1 THEN GuidB ELSE <<>>)

\* a claim named "A" of type 1 without values; the same with a name of one
\* byte and a half
ClaimBytes == <<16, 0, 0, 0, 1, 0, 0, 0, 0, 0, 0, 0, 0, 0, 0, 0, 65, 0, 0, 0>>
ClaimBytesOdd == <<16, 0, 0, 0, 1, 0, 0, 0, 0, 0, 0, 0, 0, 0, 0, 0, 65, 0, 66>>

AceInputs ==
    \* every type byte up to 0x14 with the payload of a mask and a SID
    {AceBytes(t, 2, <<16, 0, 0, 0>> \o SidWorld) : t \in 0..20}
    \cup {AceBytes(0, f, m \o s \o a) :
            f \in AceFlagBytes, m \in AceMasks, s \in AceSids, a \in AceApplicationData}
    \cup {AceBytes(t, 2, m \o Le32(o) \o ObjectGuids(o) \o SidAdmins \o a) :
            t \in {5, 11, 12}, m \in {<<16, 0, 0, 0>>, <<0, 0, 16, 0>>}, o \in 0..4,
            a \in AceApplicationData}
    \cup {AceBytes(17, f, m \o SidLowLabel \o a) :
            f \in {0, 32}, m \in {<<1, 0, 0, 0>>, <<7, 0, 0, 0>>, <<8, 0, 0, 0>>},
            a \in AceApplicationData}
    \cup {AceBytes(18, 0, <<16, 0, 0, 0>> \o SidWorld \o c) : c \in {ClaimBytes, ClaimBytesOdd}}
    \* a size field that is wrong, a SID that is cut short, a GUID that is cut short
    \cup {<<0, 0, 21, 0>> \o <<16, 0, 0, 0>> \o SidWorld,
          <<0, 0, 19, 0>> \o <<16, 0, 0, 0>> \o SidWorld,
          AceBytes(0, 0, <<16, 0, 0, 0>> \o SubSeq(SidAdmins, 1, 12)),
          AceBytes(5, 0, <<16, 0, 0, 0>> \o Le32(1) \o SubSeq(GuidA, 1, 8)),
          AceBytes(0, 0, <<16, 0>>)}

\* the ACEs that are varied together in one ACL: one the renderer takes, one
\* with application data, one of an unknown type
FewAces ==
    {AceBytes(0, 2, <<16, 0, 0, 0>> \o SidWorld),
     AceBytes(1, 0, <<255, 1, 15, 0>> \o SidAdmins \o <<1, 2, 3, 4>>),
     AceBytes(3, 0, <<9, 9>>)}

\* an ACL of the given ACEs and trailing bytes; its size field is off by
\* size_delta and its count field by count_delta
AclBytes(revision, size_delta, count_delta, aces, trailing) ==
    <<revision, 0>>
        \o Le16(8 + Len(Flatten(aces)) + Len(trailing) + size_delta)
        \o Le16(Len(aces) + count_delta)
        \o <<0, 0>> \o Flatten(aces) \o trailing

AclInputs ==
    {AclBytes(r, sd, cd, aces, tr) :
        r \in {2, 3, 4}, sd \in {-1, 0, 1},
        cd \in {-1, 0, 1}, aces \in {a \in SeqsUpTo(FewAces, MaxAces) : Len(a) > 0},
        tr \in {<<>>, <<255, 255>>}}
    \cup {AclBytes(r, sd, cd, <<>>, tr) :
        r \in {2, 3, 4}, sd \in {-1, 0, 1}, cd \in {0, 1}, tr \in {<<>>, <<255, 255>>}}
    \cup {AclBytes(2, 0, 0, <<a>>, tr) : a \in AceInputs, tr \in {<<>>, <<255, 255>>}}
    \cup {<<>>, <<2, 0, 4, 0>>, <<2, 0, 7, 0, 0, 0, 0>>}

AclInit ==
    /\ OidIdle
    /\ SidIdle
    /\ SdIdle
    /\ RestIdle
    /\ acl_bytes \in AclInputs
    /\ acl_decoded = None
    /\ acl_sddl = None
    /\ acl_pc = "bytes"

\* Acl::try_from_bytes(acl_bytes)
AclDecode ==
    /\ acl_pc = "bytes"
    /\ acl_decoded' = Acl_try_from_bytes(acl_bytes)
    /\ acl_pc' = IF IsAbort(acl_decoded') THEN "aborted"
                 ELSE IF IsSome(acl_decoded') THEN "decoded"
                 ELSE "absent"
    /\ UNCHANGED <<acl_bytes, acl_sddl>>
    /\ UNCHANGED non_acl_vars

\* acl.try_to_string() of the decoded ACL
AclRender ==
    /\ acl_pc = "decoded"
    /\ acl_sddl' = Acl_try_to_string(Unwrap(acl_decoded))
    /\ acl_pc' = "rendered"
    /\ UNCHANGED <<acl_bytes, acl_decoded>>
    /\ UNCHANGED non_acl_vars

AclNext == AclDecode \/ AclRender

SpecAcl == AclInit /\ [][AclNext]_vars

(***************************************************************************)
(* The security descriptors the decoder and the renderer are run on: the   *)
(* 20-byte header, then the owner, the group, the SACL and the DACL that   *)
(* are there, each at the offset its header field gives.                   *)
(***************************************************************************)
\* a field without bytes whose offset is 0, the length of the buffer, or
\* beyond it; a field of the given bytes at its place
FieldAbsent == [at |-> "zero", bytes |-> <<>>]
FieldAtEnd == [at |-> "end", bytes |-> <<>>]
FieldBeyond == [at |-> "beyond", bytes |-> <<>>]
FieldHere(b) == [at |-> "here", bytes |-> b]

RECURSIVE FieldsLen(_, _)
FieldsLen(fields, n) ==
    IF n = 0 THEN 0 ELSE FieldsLen(fields, n - 1) + Len(fields[n].bytes)

FieldOffset(fields, i) ==
    CASE fields[i].at = "zero" -> 0
      [] fields[i].at = "here" -> 20 + FieldsLen(fields, i - 1)
      [] fields[i].at = "end" -> 20 + FieldsLen(fields, 4)
      [] fields[i].at = "beyond" -> 20 + FieldsLen(fields, 4) + 4

\* fields: the owner, the group, the SACL, the DACL
SdBytes(revision, control, fields) ==
    <<revision, 0>> \o Le16(control)
        \o Le32(FieldOffset(fields, 1)) \o Le32(FieldOffset(fields, 2))
        \o Le32(FieldOffset(fields, 3)) \o Le32(FieldOffset(fields, 4))
        \o fields[1].bytes \o fields[2].bytes \o fields[3].bytes \o fields[4].bytes

\* SelfRelative with DaclPresent; with SaclPresent too; without SelfRelative;
\* with P, AR and AI of both ACLs; with OwnerDefaulted; with RmControlValid
SdControls == {32772, 32788, 20, 48916, 32773, 49156}

\* a SID; a SID of five sub-authorities cut after its header
SdSidFields ==
    {FieldAbsent, FieldAtEnd, FieldBeyond, FieldHere(SidWorld), FieldHere(SidDomainUser),
     FieldHere(<<1, 5, 0, 0, 0, 0, 0, 5>>)}

\* an ACL without ACEs; an ACL of one ACE; ACL headers whose size field is
\* one more than the ACL has, and 0xFFFF
SdAclFields ==
    {FieldAbsent, FieldBeyond,
     FieldHere(AclBytes(2, 0, 0, <<>>, <<>>)),
     FieldHere(AclBytes(4, 0, 0, <<AceBytes(0, 2, <<16, 0, 0, 0>> \o SidWorld)>>, <<>>)),
     FieldHere(AclBytes(2, 1, 0, <<>>, <<>>)),
     FieldHere(<<2, 0, 255, 255, 0, 0, 0, 0>>)}

SdInputs ==
    {SdBytes(r, c, <<o, g, s, d>>) :
        r \in {1, 2}, c \in SdControls,
        o \in SdSidFields, g \in {FieldAbsent, FieldAtEnd, FieldHere(SidAdmins)},
        s \in SdAclFields, d \in SdAclFields}
    \cup {SdBytes(1, c, <<FieldHere(SidAdmins), FieldAbsent, FieldAbsent, FieldHere(a)>>) :
            c \in {32772, 48916}, a \in AclInputs}
    \cup {SdBytes(1, c, <<FieldAbsent, FieldHere(SidWorld), FieldHere(a),
                          FieldHere(AclBytes(4, 0, 0, <<x>>, <<>>))>>) :
            c \in {32788}, a \in AclInputs,
            x \in {AceBytes(0, 2, <<16, 0, 0, 0>> \o SidWorld),
                   AceBytes(0, 34, <<16, 0, 0, 0>> \o SidWorld)}}
    \* GroupDefaulted; DaclDefaulted; SaclDefaulted
    \cup {SdBytes(1, c, <<o, FieldHere(SidAdmins), s, d>>) :
            c \in {32774, 32780, 32820}, o \in {FieldAbsent, FieldHere(SidWorld)},
            s \in SdAclFields, d \in SdAclFields}
    \* fewer bytes than a header
    \cup {SubSeq(SdBytes(1, 32772, <<FieldAbsent, FieldAbsent, FieldAbsent, FieldAbsent>>), 1, n) :
            n \in {0, 4, 19}}

(***************************************************************************)
(* src/src/values.rs: what is printed.  The output is a sequence of lines, *)
(* a line a sequence of pieces in printing order.                          *)
(***************************************************************************)
UpperHexChars == <<"0", "1", "2", "3", "4", "5", "6", "7", "8", "9",
                   "A", "B", "C", "D", "E", "F">>

\* {:02X} of a byte
fmt_02X(b) == <<UpperHexChars[(b \div 16) + 1], UpperHexChars[(b % 16) + 1]>>

\* {:08X} of an offset below 2^16
fmt_08X(n) == <<"0", "0", "0", "0">> \o fmt_02X(n \div 256) \o fmt_02X(n % 256)

\* the bytes of a chunk from the i-th on, a space more before the ninth
RECURSIVE hexdump_bytes(_, _)
hexdump_bytes(chunk, i) ==
    IF i >= Len(chunk) THEN <<>>
    ELSE (IF i = 8 THEN <<" ">> ELSE <<>>) \o <<" ">> \o fmt_02X(At(chunk, i))
             \o hexdump_bytes(chunk, i + 1)

\* the lines of the chunks of 16 bytes from offset on
RECURSIVE hexdump_chunks(_, _)
hexdump_chunks(bin_value, offset) ==
    IF offset >= Len(bin_value) THEN <<>>
    ELSE LET chunk == IF offset + 16 <= Len(bin_value)
                      THEN Slice(bin_value, offset, offset + 16)
                      ELSE SliceFrom(bin_value, offset)
         IN  <<<<" ">> \o fmt_08X(offset) \o hexdump_bytes(chunk, 0)>>
                 \o hexdump_chunks(bin_value, offset + 16)

output_binary_value_as_hexdump(key, bin_value) ==
    <<<<key, ":::">>>> \o hexdump_chunks(bin_value, 0)

\* println!("{}: {}", key, sd_string)
output_sd_string(key, sd_string) == <<<<key, ": ">> \o sd_string>>

\* one of the keys of the security descriptor branch
SdKey == "nTSecurityDescriptor"

SdInit ==
    /\ OidIdle
    /\ SidIdle
    /\ AclIdle
    /\ RestIdle
    /\ sd_bytes \in SdInputs
    /\ sd_decoded = None
    /\ sd_sddl = None
    /\ sd_output = <<>>
    /\ sd_pc = "bytes"

\* SecurityDescriptor::try_from_bytes(value), and the hex dump of the else
\* branch if it is None
SdDecode ==
    /\ sd_pc = "bytes"
    /\ sd_decoded' = SecurityDescriptor_try_from_bytes(sd_bytes)
    /\ sd_pc' = IF IsAbort(sd_decoded') THEN "aborted"
                ELSE IF IsSome(sd_decoded') THEN "decoded"
                ELSE "absent"
    /\ sd_output' = IF sd_decoded' = None
                     THEN output_binary_value_as_hexdump(SdKey, sd_bytes)
                     ELSE sd_output
    /\ UNCHANGED <<sd_bytes, sd_sddl>>
    /\ UNCHANGED non_sd_vars

\* sd.try_to_string() of the decoded descriptor, and the line or the hex
\* dump that is printed
SdRender ==
    /\ sd_pc = "decoded"
    /\ sd_sddl' = SecurityDescriptor_try_to_string(Unwrap(sd_decoded))
    /\ sd_output' = IF IsSome(sd_sddl')
                     THEN output_sd_string(SdKey, Unwrap(sd_sddl'))
                     ELSE output_binary_value_as_hexdump(SdKey, sd_bytes)
    /\ sd_pc' = "rendered"
    /\ UNCHANGED <<sd_bytes, sd_decoded>>
    /\ UNCHANGED non_sd_vars

SdNext == SdDecode \/ SdRender

SpecSd == SdInit /\ [][SdNext]_vars

(***************************************************************************)
(* Acl::try_from_bytes against the layout of an ACL.                       *)
(***************************************************************************)
\* the 16-bit little-endian field at a 0-based offset
FieldLe16(bytes, offset) == bytes[offset + 1] + 256 * bytes[offset + 2]

\* the offset after n ACEs from the offset on, each as long as its size field
\* says; -1 if the slice ends before a size field
RECURSIVE AcesEnd(_, _, _)
AcesEnd(bytes, offset, n) ==
    IF n = 0 THEN offset
    ELSE IF offset + 4 > Len(bytes) THEN -1
    ELSE AcesEnd(bytes, offset + FieldLe16(bytes, offset + 2), n - 1)

\* C9: Acl::try_from_bytes succeeds only if the declared size of the ACL is
\* the length of the slice and the declared number of ACEs, each as long as
\* its own size field says, ends exactly at the declared size: no bytes are
\* left over and none are missing.
C9_AclConsumesAll ==
    (acl_pc \in {"decoded", "rendered"}) =>
        /\ Len(acl_bytes) >= 8
        /\ FieldLe16(acl_bytes, 2) = Len(acl_bytes)
        /\ AcesEnd(acl_bytes, 8, FieldLe16(acl_bytes, 4)) = FieldLe16(acl_bytes, 2)

\* an ACL of no ACEs and two more bytes within its declared size is decoded
C9_LeftoverAccepted ==
    /\ acl_pc = "decoded"
    /\ acl_bytes = <<2, 0, 10, 0, 0, 0, 0, 0, 255, 255>>
    /\ IsSome(acl_decoded)
    /\ Unwrap(acl_decoded).entries = <<>>

(***************************************************************************)
(* SecurityDescriptor::try_from_bytes against the layout of a descriptor.  *)
(***************************************************************************)
\* the 32-bit little-endian field at a 0-based offset
FieldLe32(bytes, offset) ==
    bytes[offset + 1] + 256 * bytes[offset + 2] + 65536 * bytes[offset + 3]
        + 16777216 * bytes[offset + 4]

\* the header fields of the offsets of the owner, the group, the SACL, the DACL
SdOffsetFields == {4, 8, 12, 16}

SdFieldAt(sd, k) ==
    CASE k = 4 -> sd.owner
      [] k = 8 -> sd.group
      [] k = 12 -> sd.sacl
      [] k = 16 -> sd.dacl

\* at least 20 bytes, revision 1, and 0x8000 in the control word at bytes 2..4
SdHeaderValid(bytes) ==
    /\ Len(bytes) >= 20
    /\ bytes[1] = 1
    /\ bytes[4] >= 128

SdDecodeReturned == sd_pc \in {"decoded", "absent", "aborted", "rendered"}

\* C7: SecurityDescriptor::try_from_bytes returns absent unless the input has
\* at least 20 bytes, revision 1 and the self-relative control bit; when it
\* succeeds, each of owner, group, SACL and DACL is absent exactly when its
\* offset field is 0; and a non-zero offset at or beyond the end of the
\* buffer makes the whole decode absent.
C7_SdHeaderAndOffsets ==
    SdDecodeReturned =>
        /\ ~SdHeaderValid(sd_bytes) => sd_decoded = None
        /\ IsSome(sd_decoded) =>
             \A k \in SdOffsetFields :
                 (SdFieldAt(Unwrap(sd_decoded), k) = None) <=> (FieldLe32(sd_bytes, k) = 0)
        /\ (/\ Len(sd_bytes) >= 20
            /\ \E k \in SdOffsetFields :
                   /\ FieldLe32(sd_bytes, k) # 0
                   /\ FieldLe32(sd_bytes, k) >= Len(sd_bytes))
           => sd_decoded = None

\* the offset is within the buffer, and the SID header there says more
\* sub-authorities than the rest of the buffer holds
SidOversizeAt(bytes, offset) ==
    /\ offset # 0
    /\ offset + 2 <= Len(bytes)
    /\ 8 + 4 * bytes[offset + 2] > Len(bytes) - offset

\* the offset is within the buffer, and the size field of the ACL header
\* there is larger than the rest of the buffer
AclOversizeAt(bytes, offset) ==
    /\ offset # 0
    /\ offset + 4 <= Len(bytes)
    /\ FieldLe16(bytes, offset + 2) > Len(bytes) - offset

\* C8: SecurityDescriptor::try_from_bytes returns absent, and does not abort,
\* whenever a non-zero owner, group, SACL or DACL offset points at a SID or
\* ACL header whose own length field says more bytes than the buffer has
\* from that offset on.
C8_OversizeIsAbsent ==
    (/\ SdDecodeReturned
     /\ Len(sd_bytes) >= 20
     /\ \/ \E k \in {4, 8} : SidOversizeAt(sd_bytes, FieldLe32(sd_bytes, k))
        \/ \E k \in {12, 16} : AclOversizeAt(sd_bytes, FieldLe32(sd_bytes, k)))
    => sd_decoded = None

\* the descriptor of a DACL at offset 20 whose header says 0xFFFF bytes
C8_OversizeAclAborts ==
    /\ sd_pc = "aborted"
    /\ sd_bytes = <<1, 0, 4, 128, 0, 0, 0, 0, 0, 0, 0, 0, 0, 0, 0, 0, 20, 0, 0, 0,
                    2, 0, 255, 255, 0, 0, 0, 0>>

(***************************************************************************)
(* SecurityDescriptor::try_to_string against the ACEs of the descriptor.   *)
(***************************************************************************)
\* 0x01, 0x02, 0x04, 0x08, 0x10, 0x40, 0x80
RecognizedAceFlagBits == {0, 1, 2, 3, 4, 6, 7}

\* the rights with a code: 0x1 to 0x100 and 0x10000 to 0x80000; 0x1 to 0x4
\* of a mandatory label
RecognizedMaskBits(kind) ==
    IF kind = "SystemMandatoryLabel" THEN 0..2 ELSE (0..8) \cup (16..19)

KindsWithoutCode == {"AccessDeniedCallbackObject", "SystemAuditCallbackObject", "Other"}

AceIsRenderable(ace) ==
    /\ ace.application_data = <<>>
    /\ ace.flags \subseteq RecognizedAceFlagBits
    /\ ace.data.kind \notin KindsWithoutCode
    /\ Unwrap(ace.data.mask) \subseteq RecognizedMaskBits(ace.data.kind)

\* the descriptor with the i-th ACE of its DACL or SACL replaced
WithAce(sd, which, i, ace) ==
    [sd EXCEPT ![which] = Some([Unwrap(@) EXCEPT !.entries[i] = ace])]

WithFlagBit(ace, b) == [ace EXCEPT !.flags = @ \cup {b}]

WithMaskBit(ace, b) == [ace EXCEPT !.data.mask = Some(Unwrap(@) \cup {b})]

\* C10: whenever SecurityDescriptor::try_to_string returns a string, every
\* ACE of the DACL and of the SACL has no application data, only recognized
\* flag bits, only recognized mask bits and a type with a textual code; and
\* the same descriptor with one more, unrecognized, flag or mask bit in any
\* one ACE renders to absent.
C10_AceBailOut ==
    (sd_pc = "rendered" /\ IsSome(sd_sddl)) =>
        LET sd == Unwrap(sd_decoded)
        IN  \A which \in {"dacl", "sacl"} :
                IsSome(sd[which]) =>
                    \A i \in 1..Len(Unwrap(sd[which]).entries) :
                        LET ace == Unwrap(sd[which]).entries[i]
                        IN  /\ AceIsRenderable(ace)
                            /\ \A b \in (0..7) \ RecognizedAceFlagBits :
                                   SecurityDescriptor_try_to_string(
                                       WithAce(sd, which, i, WithFlagBit(ace, b))) = None
                            /\ \A b \in (0..31) \ RecognizedMaskBits(ace.data.kind) :
                                   SecurityDescriptor_try_to_string(
                                       WithAce(sd, which, i, WithMaskBit(ace, b))) = None

\* a descriptor with ACEs in both its DACL and its SACL is rendered
C10_Witness ==
    /\ sd_pc = "rendered"
    /\ IsSome(sd_sddl)
    /\ IsSome(Unwrap(sd_decoded).dacl)
    /\ IsSome(Unwrap(sd_decoded).sacl)
    /\ Len(Unwrap(Unwrap(sd_decoded).dacl).entries) >= 1
    /\ Len(Unwrap(Unwrap(sd_decoded).sacl).entries) >= MaxAces

(***************************************************************************)
(* The control bits SDDL cannot write, and what is printed then.           *)
(***************************************************************************)
\* 0x0001, 0x0002, 0x0008, 0x0020, 0x4000
DisqualifyingControlBits == {0, 1, 3, 5, 14}

\* the bits of the control word at bytes 2..4 of the descriptor
ControlBitsOf(bytes) ==
    {n \in 0..15 : (FieldLe16(bytes, 2) \div (2 ^ n)) % 2 = 1}

\* the hex dump of a value: the key and ":::", then a line for every 16
\* bytes, of the offset and the bytes in upper-case hexadecimal
IsHexdumpOf(output, key, bytes) ==
    /\ Len(output) = 1 + (Len(bytes) + 15) \div 16
    /\ output[1] = <<key, ":::">>
    /\ \A r \in 2..Len(output) :
           /\ output[r][1] = " "
           /\ SubSeq(output[r], 2, 5) = <<"0", "0", "0", "0">>
           /\ \A j \in 0..15 :
                  LET pos == 16 * (r - 2) + j + 1
                      at == 9 + 3 * j + (IF j >= 8 THEN 1 ELSE 0)
                  IN  pos <= Len(bytes) =>
                          SubSeq(output[r], at + 1, at + 3)
                              = <<" ", UpperHexChars[(bytes[pos] \div 16) + 1],
                                  UpperHexChars[(bytes[pos] % 16) + 1]>>

\* C11: SecurityDescriptor::try_to_string returns absent for every descriptor
\* whose control word has OwnerDefaulted, GroupDefaulted, DaclDefaulted,
\* SaclDefaulted or RmControlValid set, whatever its owner, group and ACLs
\* are; what is printed then is the hex dump of the raw bytes, not a line
\* with a string.
C11_ControlBailOut ==
    /\ (sd_pc = "rendered" /\ ControlBitsOf(sd_bytes) \cap DisqualifyingControlBits # {}) =>
           /\ sd_sddl = None
           /\ IsHexdumpOf(sd_output, SdKey, sd_bytes)
    /\ (sd_pc = "rendered") =>
           \A b \in DisqualifyingControlBits :
               SecurityDescriptor_try_to_string(
                   [Unwrap(sd_decoded) EXCEPT !.control = @ \cup {b}]) = None

\* a descriptor with RmControlValid and a DACL that could be written has
\* been dumped
C11_Witness ==
    /\ sd_pc = "rendered"
    /\ 14 \in ControlBitsOf(sd_bytes)
    /\ IsSome(Unwrap(sd_decoded).dacl)
    /\ IsSome(SecurityDescriptor_try_to_string_any_control(Unwrap(sd_decoded)))
    /\ Len(sd_output) > 2

(***************************************************************************)
(* The grammar of the string SecurityDescriptor::try_to_string returns.    *)
(***************************************************************************)
\* the codes of the claim in their order, each with the bit it stands for
GrammarAceFlags == <<"CI", "OI", "NP", "IO", "ID", "SA", "FA">>
GrammarAceFlagBit ==
    [CI |-> 1, OI |-> 0, NP |-> 2, IO |-> 3, ID |-> 4, SA |-> 6, FA |-> 7]

GrammarRights ==
    <<"CC", "DC", "LC", "SW", "RP", "WP", "DT", "LO", "CR", "SD", "RC", "WD", "WO">>
GrammarRightBit ==
    [CC |-> 0, DC |-> 1, LC |-> 2, SW |-> 3, RP |-> 4, WP |-> 5, DT |-> 6, LO |-> 7,
     CR |-> 8, SD |-> 16, RC |-> 17, WD |-> 18, WO |-> 19]

GrammarLabelRights == <<"NR", "NW", "NX">>
GrammarLabelRightBit == [NR |-> 1, NW |-> 0, NX |-> 2]

\* the codes of the order, from the n-th on, whose bit is in bits
RECURSIVE GrammarCodes(_, _, _, _)
GrammarCodes(bits, order, bit_of, n) ==
    IF n > Len(order) THEN <<>>
    ELSE (IF bit_of[order[n]] \in bits THEN <<order[n]>> ELSE <<>>)
             \o GrammarCodes(bits, order, bit_of, n + 1)

GrammarGuid(guid) == IF guid = None THEN <<>> ELSE fmt_uuid_le(Unwrap(guid))

\* (type;flags;rights;object-guid;inherit-guid;sid)
GrammarAce(ace) ==
    <<"(">> \o ace_type_code(ace.data.kind) \o <<";">>
        \o GrammarCodes(ace.flags, GrammarAceFlags, GrammarAceFlagBit, 1) \o <<";">>
        \o (IF ace.data.kind = "SystemMandatoryLabel"
            THEN GrammarCodes(Unwrap(ace.data.mask), GrammarLabelRights,
                              GrammarLabelRightBit, 1)
            ELSE GrammarCodes(Unwrap(ace.data.mask), GrammarRights, GrammarRightBit, 1))
        \o <<";">> \o GrammarGuid(ace.data.object_type)
        \o <<";">> \o GrammarGuid(ace.data.inherited_object_type)
        \o <<";">> \o Sid_to_sddl_sid_string(Unwrap(ace.data.sid)) \o <<")">>

RECURSIVE GrammarAces(_, _)
GrammarAces(entries, n) ==
    IF n > Len(entries) THEN <<>>
    ELSE GrammarAce(entries[n]) \o GrammarAces(entries, n + 1)

\* the letter of the ACL, its flags P, AR, AI in this order, its ACEs
GrammarAcl(acl, letter, control, p, ar, ai) ==
    IF acl = None THEN <<>>
    ELSE <<letter>>
             \o (IF p \in control THEN <<"P">> ELSE <<>>)
             \o (IF ar \in control THEN <<"AR">> ELSE <<>>)
             \o (IF ai \in control THEN <<"AI">> ELSE <<>>)
             \o GrammarAces(Unwrap(acl).entries, 1)

\* O:<owner>G:<group>D:<dacl-flags><ace>*S:<sacl-flags><ace>*; the bits
\* 0x1000, 0x0100, 0x0400 of the DACL and 0x2000, 0x0200, 0x0800 of the SACL
GrammarSd(sd) ==
    (IF sd.owner = None THEN <<>>
     ELSE <<"O:">> \o Sid_to_sddl_sid_string(Unwrap(sd.owner)))
        \o (IF sd.group = None THEN <<>>
            ELSE <<"G:">> \o Sid_to_sddl_sid_string(Unwrap(sd.group)))
        \o GrammarAcl(sd.dacl, "D:", sd.control, 12, 8, 10)
        \o GrammarAcl(sd.sacl, "S:", sd.control, 13, 9, 11)

\* how many pieces of the text are the piece
CountOf(text, piece) == Cardinality({i \in 1..Len(text) : text[i] = piece})

AcesOf(acl) == IF acl = None THEN 0 ELSE Len(Unwrap(acl).entries)

\* C12: when SecurityDescriptor::try_to_string succeeds, the string is, in
\* this order, O: and the owner, G: and the group, D: with the DACL flags P,
\* AR, AI and the ACEs, S: with the SACL flags P, AR, AI and the ACEs, each
\* part only if it is present; an ACE is (type;flags;rights;object-guid;
\* inherit-guid;sid) with exactly five semicolons, its flags in the order CI,
\* OI, NP, IO, ID, SA, FA, its rights in the order CC, DC, LC, SW, RP, WP, DT,
\* LO, CR, SD, RC, WD, WO or, of a mandatory label, NR, NW, NX, and a GUID
\* that is absent an empty field.
C12_SddlGrammar ==
    (sd_pc = "rendered" /\ IsSome(sd_sddl)) =>
        LET sd == Unwrap(sd_decoded)
        IN  /\ Unwrap(sd_sddl) = GrammarSd(sd)
            /\ CountOf(Unwrap(sd_sddl), ";") = 5 * (AcesOf(sd.dacl) + AcesOf(sd.sacl))
            /\ CountOf(Unwrap(sd_sddl), "(") = AcesOf(sd.dacl) + AcesOf(sd.sacl)

\* a descriptor with an owner, a protected DACL and an ACE of the flags OI
\* and CI and the rights CC and WO has been rendered
C12_Witness ==
    /\ sd_pc = "rendered"
    /\ IsSome(sd_sddl)
    /\ IsSome(Unwrap(sd_decoded).owner)
    /\ IsSome(Unwrap(sd_decoded).dacl)
    /\ 12 \in Unwrap(sd_decoded).control
    /\ \E i \in 1..AcesOf(Unwrap(sd_decoded).dacl) :
           LET ace == Unwrap(Unwrap(sd_decoded).dacl).entries[i]
           IN  /\ {0, 1} \subseteq ace.flags
               /\ {0, 19} \subseteq Unwrap(ace.data.mask)

(***************************************************************************)
(* Sid::as_well_known_sddl_sid_string and Sid::to_sddl_sid_string on the   *)
(* SIDs of the table, their neighbours, and SIDs relative to a domain.     *)
(***************************************************************************)
\* the bytes of the version-1 SID of an authority below 2^16 and of
\* sub-authorities below 2^24
SidBytesOf(authority, subs) ==
    <<1, Len(subs), 0, 0, 0, 0, authority \div 256, authority % 256>>
        \o Flatten([i \in 1..Len(subs) |-> Le32(subs[i])])

\* the relative identifiers of the domain SIDs: administrator, domain
\* admins, domain users, enterprise admins, and the RID of BA
DomainRids == {500, 512, 513, 519, 544}

AliasSidInputs ==
    {SidBytesOf(e[1], e[2]) : e \in WellKnownSids}
    \* one sub-authority more, the last sub-authority one higher, another
    \* authority, no sub-authorities
    \cup {SidBytesOf(e[1], e[2] \o <<x>>) : e \in WellKnownSids, x \in {0, 512}}
    \cup {SidBytesOf(e[1], [e[2] EXCEPT ![Len(e[2])] = @ + 1]) : e \in WellKnownSids}
    \cup {SidBytesOf(e[1] + 1, e[2]) : e \in WellKnownSids}
    \cup {SidBytesOf(e[1], <<>>) : e \in WellKnownSids}
    \* S-1-5-21-7-8-c-rid, S-1-5-21-rid, S-1-5-21
    \cup {SidBytesOf(5, <<21, 7, 8, c, rid>>) : c \in {9, 70000}, rid \in DomainRids}
    \cup {SidBytesOf(5, <<21, rid>>) : rid \in DomainRids}
    \cup {SidBytesOf(5, <<21>>)}
    \* not a SID
    \cup {<<>>, <<2, 1, 0, 0, 0, 0, 0, 1, 0, 0, 0, 0>>}

AliasInit ==
    /\ OidIdle
    /\ SidIdle
    /\ AclIdle
    /\ SdIdle
    /\ DecIdle
    /\ OutIdle
    /\ alias_bytes \in AliasSidInputs
    /\ alias_sid = None
    /\ alias_code = None
    /\ alias_sddl = <<>>
    /\ alias_pc = "bytes"

\* Sid::try_from_bytes(alias_bytes)
AliasDecode ==
    /\ alias_pc = "bytes"
    /\ alias_sid' = Sid_try_from_bytes(alias_bytes)
    /\ alias_pc' = IF IsSome(alias_sid') THEN "decoded" ELSE "absent"
    /\ UNCHANGED <<alias_bytes, alias_code, alias_sddl>>
    /\ UNCHANGED non_alias_vars

\* sid.as_well_known_sddl_sid_string() and sid.to_sddl_sid_string()
AliasLookup ==
    /\ alias_pc = "decoded"
    /\ alias_code' = Sid_as_well_known_sddl_sid_string(Unwrap(alias_sid))
    /\ alias_sddl' = Sid_to_sddl_sid_string(Unwrap(alias_sid))
    /\ alias_pc' = "done"
    /\ UNCHANGED <<alias_bytes, alias_sid>>
    /\ UNCHANGED non_alias_vars

AliasNext == AliasDecode \/ AliasLookup

SpecAlias == AliasInit /\ [][AliasNext]_vars

\* the decimal text of a number below 2^31
RECURSIVE DecimalText(_)
DecimalText(n) ==
    IF n < 10 THEN <<DigitChars[n + 1]>>
    ELSE DecimalText(n \div 10) \o <<DigitChars[(n % 10) + 1]>>

\* the authority and the i-th sub-authority of the bytes of a SID
AuthorityOfBytes(bytes) == 256 * bytes[7] + bytes[8]
SubauthorityOfBytes(bytes, i) == FieldLe32(bytes, 8 + 4 * (i - 1))

RECURSIVE CanonicalSubs(_, _)
CanonicalSubs(bytes, i) ==
    IF i > bytes[2] THEN <<>>
    ELSE <<"-">> \o DecimalText(SubauthorityOfBytes(bytes, i)) \o CanonicalSubs(bytes, i + 1)

\* S-1-<authority>[-<sub>]*
CanonicalSidText(bytes) ==
    <<"S", "-", "1", "-">> \o DecimalText(AuthorityOfBytes(bytes)) \o CanonicalSubs(bytes, 1)

\* authority 5, first sub-authority 21 and a relative identifier after it
IsDomainRelative(bytes) ==
    /\ AuthorityOfBytes(bytes) = 5
    /\ bytes[2] >= 2
    /\ SubauthorityOfBytes(bytes, 1) = 21

\* C13: the alias of a SID depends only on its authority and its sequence of
\* sub-authorities; a SID relative to a domain (authority 5, first
\* sub-authority 21, a trailing RID) has no alias; and for every SID without
\* an alias to_sddl_sid_string returns the canonical S-1-<authority>[-<sub>]*
\* text.
C13_AliasLookup ==
    (alias_pc = "done") =>
        /\ alias_code = Sid_as_well_known_sddl_sid_string(
                            [version |-> 1,
                             authority |-> Unwrap(alias_sid).authority,
                             subauthorities |-> Unwrap(alias_sid).subauthorities])
        /\ IsDomainRelative(alias_bytes) => alias_code = None
        /\ alias_code = None => alias_sddl = CanonicalSidText(alias_bytes)

\* the domain admins of a domain have been looked up
C13_Witness ==
    /\ alias_pc = "done"
    /\ alias_bytes = SidBytesOf(5, <<21, 7, 8, 9, 512>>)
    /\ alias_sddl = <<"S", "-", "1", "-", "5", "-", "2", "1", "-", "7", "-", "8", "-", "9",
                      "-", "5", "1", "2">>

(***************************************************************************)
(* The call of a decoder of a record family and its return.                *)
(***************************************************************************)
\* the state before decoder is called with one of the inputs
DecCall(decoder, inputs) ==
    /\ CoreIdle
    /\ AliasIdle
    /\ OutIdle
    /\ dec_decoder = decoder
    /\ dec_input \in inputs
    /\ dec_result = None
    /\ dec_pc = "call"

\* the call of decoder returns result, or aborts
DecReturn(decoder, result) ==
    /\ dec_decoder = decoder
    /\ dec_pc = "call"
    /\ dec_result' = result
    /\ dec_pc' = IF IsAbort(result) THEN "aborted" ELSE "returned"
    /\ UNCHANGED <<dec_decoder, dec_input>>
    /\ UNCHANGED non_dec_vars

\* the decoder has returned a value
DecSucceeded(decoder) ==
    dec_decoder = decoder /\ dec_pc = "returned" /\ IsSome(dec_result)

(***************************************************************************)
(* src/src/oid_prefix.rs: OidPrefix::from_ber_bytes as a function.         *)
(***************************************************************************)
\* the while loop from the state (bytes, fixed_arcs) on: the OidPrefix, as
\* <<"OidPrefix", fixed_arcs, final_range>>, or Abort at a failed assertion
RECURSIVE from_ber_bytes_loop(_, _)
from_ber_bytes_loop(bytes, arcs) ==
    IF Len(bytes) = 0 THEN <<"OidPrefix", arcs, DefaultRange>>
    ELSE LET taken == take_ber_integer_slice(bytes)
             arc_slice == taken[1]
             rest == taken[2]
         IN  IF ~is_terminated_assert_ok(arc_slice) THEN Abort
             ELSE IF is_terminated_ber_integer(arc_slice)
             THEN IF ~extract_assert_ok(arc_slice) THEN Abort
                  ELSE from_ber_bytes_loop(
                           rest, push_fixed_arc(arcs, extract_ber_integer(arc_slice)))
             ELSE IF Len(rest) # 0 THEN Abort
             ELSE <<"OidPrefix", arcs,
                    <<extract_ber_integer(smallest_bytes(arc_slice)),
                      extract_ber_integer(largest_bytes(arc_slice)) + 1>> >>

OidPrefix_from_ber_bytes(bytes) == from_ber_bytes_loop(bytes, <<>>)

(***************************************************************************)
(* src/src/values/structs/schema.rs: PrefixMap::try_from_bytes.            *)
(***************************************************************************)
MaxPrefixes == 2

\* the loop over 0..num_entries from the offset i on, with the entries pushed
\* so far: Some(prefixes), None, or the Abort of from_ber_bytes
RECURSIVE PrefixMap_entries(_, _, _, _)
PrefixMap_entries(bytes, i, remaining, prefixes) ==
    IF remaining = 0 THEN Some(prefixes)
    ELSE IF i + 4 > Len(bytes) THEN None
    ELSE LET db_prefix == u16_from_le_bytes(Slice(bytes, i, i + 2))
             ber_len == u16_from_le_bytes(Slice(bytes, i + 2, i + 4))
         IN  IF i + 4 + ber_len > Len(bytes) THEN None
             ELSE LET oid_prefix ==
                          OidPrefix_from_ber_bytes(Slice(bytes, i + 4, i + 4 + ber_len))
                  IN  IF IsAbort(oid_prefix) THEN Abort
                      ELSE PrefixMap_entries(bytes, i + 4 + ber_len, remaining - 1,
                                             Append(prefixes, <<db_prefix, oid_prefix>>))

PrefixMap_try_from_bytes(bytes) ==
    IF Len(bytes) < 8 THEN None
    ELSE IF usize_from_le_bytes(Slice(bytes, 4, 8)) # Len(bytes) THEN None
    ELSE PrefixMap_entries(bytes, 8, usize_from_le_bytes(Slice(bytes, 0, 4)), <<>>)

\* BER prefixes: none, 1.2, 1.2.3, an unterminated arc, 2.5 and an unterminated arc
BerPrefixes == {<<>>, <<42>>, <<42, 3>>, <<129>>, <<85, 129>>}

\* an entry whose ber_prefix_length is the length of its prefix plus len_delta
PrefixEntryBytes(db_prefix, ber, len_delta) ==
    Le16(db_prefix) \o Le16(Len(ber) + len_delta) \o ber

PrefixEntryInputs ==
    {PrefixEntryBytes(db, ber, d) : db \in {1, 258}, ber \in BerPrefixes, d \in {0, 1}}

\* a map whose num_entries is the number of its entries plus count_delta and
\* whose num_bytes is its length plus size_delta
PrefixMapBytes(entries, count_delta, size_delta, trailing) ==
    LET body == Flatten(entries) \o trailing
    IN  Le32(Len(entries) + count_delta) \o Le32(8 + Len(body) + size_delta) \o body

PrefixMapInputs ==
    {PrefixMapBytes(x[1], x[2], sd, trailing) :
        x \in {y \in SeqsUpTo(PrefixEntryInputs, MaxPrefixes) \X {-1, 0, 1} :
                  Len(y[1]) + y[2] >= 0},
        sd \in {0, 1},
        trailing \in {<<>>, <<255, 255>>, <<7, 0, 0, 0>>}}
    \cup {<<>>, <<0, 0, 0, 0>>, <<0, 0, 0, 0, 7, 0, 0>>}

PmInit == DecCall("PrefixMap", PrefixMapInputs)

PrefixMapDecode == DecReturn("PrefixMap", PrefixMap_try_from_bytes(dec_input))

PmNext == PrefixMapDecode

SpecPm == PmInit /\ [][PmNext]_vars

(***************************************************************************)
(* PrefixMap::try_from_bytes against the layout of a prefix map.           *)
(***************************************************************************)
\* the offset after n entries from the offset on, each of four bytes and the
\* length its ber_prefix_length field declares
RECURSIVE PrefixEntriesEnd(_, _, _)
PrefixEntriesEnd(bytes, offset, n) ==
    IF n = 0 THEN offset
    ELSE IF offset + 4 > Len(bytes) THEN -1
    ELSE PrefixEntriesEnd(bytes, offset + 4 + FieldLe16(bytes, offset + 2), n - 1)

\* C14: whenever PrefixMap::try_from_bytes succeeds, the 8-byte header and
\* the declared number of entries, each of 4 bytes and its declared BER
\* length, account for exactly the length of the input: no bytes after the
\* last entry are ignored.
C14_PrefixMapConsumesAll ==
    DecSucceeded("PrefixMap") =>
        /\ Len(dec_input) >= 8
        /\ PrefixEntriesEnd(dec_input, 8, FieldLe32(dec_input, 0)) = Len(dec_input)

\* a map of no entries and two more bytes within its num_bytes is decoded
C14_TrailingAccepted ==
    /\ DecSucceeded("PrefixMap")
    /\ dec_input = <<0, 0, 0, 0, 10, 0, 0, 0, 255, 255>>
    /\ Unwrap(dec_result) = <<>>

\* what does hold: a decoded map has num_bytes equal to the length of the
\* input and its declared entries end within the input
C14_PrefixMapWithinInput ==
    DecSucceeded("PrefixMap") =>
        /\ Len(dec_input) >= 8
        /\ FieldLe32(dec_input, 4) = Len(dec_input)
        /\ PrefixEntriesEnd(dec_input, 8, FieldLe32(dec_input, 0)) \in 8..Len(dec_input)

(***************************************************************************)
(* String::from_utf8: the bytes if they are well-formed UTF-8.             *)
(***************************************************************************)
IsUtf8Continuation(b) == b \in 128..191

\* the number of bytes of the well-formed sequence at the head of bytes, 0 if
\* there is none
utf8_sequence_length(bytes) ==
    LET b1 == bytes[1]
        n == Len(bytes)
        second_in(lo, hi) == n >= 2 /\ bytes[2] \in lo..hi
        cont(k) == n >= k /\ IsUtf8Continuation(bytes[k])
    IN  IF b1 < 128 THEN 1
        ELSE IF b1 \in 194..223 THEN (IF cont(2) THEN 2 ELSE 0)
        ELSE IF b1 = 224 THEN (IF second_in(160, 191) /\ cont(3) THEN 3 ELSE 0)
        ELSE IF b1 = 237 THEN (IF second_in(128, 159) /\ cont(3) THEN 3 ELSE 0)
        ELSE IF b1 \in 225..239 THEN (IF cont(2) /\ cont(3) THEN 3 ELSE 0)
        ELSE IF b1 = 240 THEN (IF second_in(144, 191) /\ cont(3) /\ cont(4) THEN 4 ELSE 0)
        ELSE IF b1 = 244 THEN (IF second_in(128, 143) /\ cont(3) /\ cont(4) THEN 4 ELSE 0)
        ELSE IF b1 \in 241..243 THEN (IF cont(2) /\ cont(3) /\ cont(4) THEN 4 ELSE 0)
        ELSE 0

RECURSIVE utf8_valid(_)
utf8_valid(bytes) ==
    IF Len(bytes) = 0 THEN TRUE
    ELSE LET k == utf8_sequence_length(bytes)
         IN  k > 0 /\ utf8_valid(SliceFrom(bytes, k))

String_from_utf8(bytes) == IF utf8_valid(bytes) THEN Some(bytes) ELSE None

(***************************************************************************)
(* src/src/values/structs/trust.rs: TrustForestTrustInfo and its records.  *)
(***************************************************************************)
MaxRecords == 2

TrustInfoRecord_get_length(bytes) ==
    IF Len(bytes) < 4 THEN None
    ELSE Some(usize_from_le_bytes(Slice(bytes, 0, 4)) + 4)

\* (length, flags, timestamp, record_type); the timestamp is kept as its
\* upper and lower 32-bit words, which determine the ticks since 1601
TrustInfoRecord_try_header_from_bytes(bytes) ==
    IF Len(bytes) < 17 THEN None
    ELSE Some(<<usize_from_le_bytes(Slice(bytes, 0, 4)),
                bits_from_le_bytes(Slice(bytes, 4, 8)),
                <<Slice(bytes, 8, 12), Slice(bytes, 12, 16)>>,
                At(bytes, 16)>>)

\* a u32 length at position and as many bytes after it: the bytes and the
\* position after them, None if either does not fit
trust_counted_bytes(bytes, position) ==
    IF position + 4 > Len(bytes) THEN None
    ELSE LET length == usize_from_le_bytes(Slice(bytes, position, position + 4))
         IN  IF position + 4 + length > Len(bytes) THEN None
             ELSE Some(<<Slice(bytes, position + 4, position + 4 + length),
                         position + 4 + length>>)

\* a counted name at position: the String and the position after it
trust_counted_name(bytes, position) ==
    Try(trust_counted_bytes(bytes, position), LAMBDA field :
        Try(String_from_utf8(field[1]), LAMBDA name : Some(<<name, field[2]>>)))

\* record types 0x00 and 0x01
TrustInfoRecord_top_level_name(bytes, flags, timestamp, record_type) ==
    IF Len(bytes) < 21 THEN None
    ELSE IF Len(bytes) # 21 + usize_from_le_bytes(Slice(bytes, 17, 21)) THEN None
    ELSE Try(String_from_utf8(SliceFrom(bytes, 21)), LAMBDA name :
             Some(<<IF record_type = 0 THEN "TopLevelName" ELSE "TopLevelNameEx",
                    flags, timestamp, name>>))

\* the DNS name and the NetBIOS name from position on, up to the end of the
\* record: <<dns_name, netbios_name>>
trust_names_to_end(bytes, position) ==
    Try(trust_counted_name(bytes, position), LAMBDA dns :
        Try(trust_counted_name(bytes, dns[2]), LAMBDA netbios :
            IF netbios[2] # Len(bytes) THEN None
            ELSE Some(<<dns[1], netbios[1]>>)))

\* record type 0x02
TrustInfoRecord_domain_info(bytes, flags, timestamp) ==
    Try(trust_counted_bytes(bytes, 17), LAMBDA sid_field :
        Try(Sid_try_from_bytes(sid_field[1]), LAMBDA sid :
            Try(trust_names_to_end(bytes, sid_field[2]), LAMBDA names :
                Some(<<"DomainInfo", flags, timestamp, sid, names[1], names[2]>>))))

\* the SID of a scanner record, of a one-byte length at position: the
\* Option<Sid> and the position after it
trust_scanner_sid(bytes, position) ==
    IF position + 1 > Len(bytes) THEN None
    ELSE LET sid_length == At(bytes, position)
         IN  IF sid_length = 0 THEN Some(<<None, position + 1>>)
             ELSE IF position + 1 + sid_length > Len(bytes) THEN None
             ELSE Try(Sid_try_from_bytes(Slice(bytes, position + 1, position + 1 + sid_length)),
                      LAMBDA sid : Some(<<Some(sid), position + 1 + sid_length>>))

\* record type 0x04
TrustInfoRecord_scanner_info(bytes, flags, timestamp) ==
    IF 17 + 4 > Len(bytes) THEN None
    ELSE IF 21 + usize_from_le_bytes(Slice(bytes, 17, 21)) > Len(bytes) THEN None
    ELSE IF 21 + 4 > Len(bytes) THEN None
    ELSE Try(trust_scanner_sid(bytes, 25), LAMBDA sid :
             Try(trust_names_to_end(bytes, sid[2]), LAMBDA names :
                 Some(<<"ScannerInfo", flags, timestamp, Slice(bytes, 21, 25),
                        sid[1], names[1], names[2]>>)))

\* the other record types
TrustInfoRecord_binary_info(bytes, flags, timestamp, other) ==
    IF 17 + 4 > Len(bytes) THEN None
    ELSE LET full_data_length == usize_from_le_bytes(Slice(bytes, 17, 21))
         IN  IF full_data_length < 4 THEN None
             ELSE IF 21 + full_data_length > Len(bytes) THEN None
             ELSE IF 21 + 4 > Len(bytes) THEN None
             ELSE IF 25 + (full_data_length - 4) # Len(bytes) THEN None
             ELSE LET binary_info == <<flags, timestamp, Slice(bytes, 21, 25),
                                       Slice(bytes, 25, 25 + (full_data_length - 4))>>
                  IN  IF other = 3 THEN Some(<<"BinaryInfo", binary_info>>)
                      ELSE Some(<<"Other", other, binary_info>>)

TrustInfoRecord_try_from_bytes(bytes) ==
    Try(TrustInfoRecord_try_header_from_bytes(bytes), LAMBDA header :
        IF header[1] # Len(bytes) - 4 THEN None
        ELSE IF header[4] \in {0, 1}
        THEN TrustInfoRecord_top_level_name(bytes, header[2], header[3], header[4])
        ELSE IF header[4] = 2
        THEN TrustInfoRecord_domain_info(bytes, header[2], header[3])
        ELSE IF header[4] = 4
        THEN TrustInfoRecord_scanner_info(bytes, header[2], header[3])
        ELSE TrustInfoRecord_binary_info(bytes, header[2], header[3], header[4]))

\* the loop over 0..record_count from position on, with the records pushed so
\* far; the slice of a record beyond the end of bytes aborts
RECURSIVE TrustForestTrustInfo_records(_, _, _, _)
TrustForestTrustInfo_records(bytes, position, remaining, records) ==
    IF remaining = 0 THEN Some(records)
    ELSE Try(TrustInfoRecord_get_length(SliceFrom(bytes, position)), LAMBDA record_length :
             IF ~SliceOk(bytes, position, position + record_length) THEN Abort
             ELSE Try(TrustInfoRecord_try_from_bytes(
                          Slice(bytes, position, position + record_length)),
                      LAMBDA record :
                          TrustForestTrustInfo_records(bytes, position + record_length,
                                                       remaining - 1, Append(records, record))))

TrustForestTrustInfo_try_from_bytes(bytes) ==
    IF Len(bytes) < 8 THEN None
    ELSE Try(TrustForestTrustInfo_records(
                 bytes, 8, usize_from_le_bytes(Slice(bytes, 4, 8)), <<>>),
             LAMBDA records : Some(<<Slice(bytes, 0, 4), records>>))

\* a record from its type and what follows the type, with a length field of
\* what follows the length field plus len_delta
TrustRecordBytes(record_type, data, len_delta) ==
    Le32(13 + Len(data) + len_delta) \o <<1, 0, 0, 0>>
        \o <<1, 0, 0, 0, 2, 0, 0, 0>> \o <<record_type>> \o data

\* a counted field: a u32 length and the bytes
Counted(bytes) == Le32(Len(bytes)) \o bytes

\* what follows the record type: a name "a", a name that is not UTF-8, a
\* domain of S-1-1-0, a domain whose SID is cut short, two scanner records,
\* binary data and a record of 17 bytes
TrustRecordData ==
    {<<0, Counted(<<97>>)>>,
     <<1, Counted(<<255>>)>>,
     <<2, Counted(SidWorld) \o Counted(<<100>>) \o Counted(<<110>>)>>,
     <<2, Counted(Slice(SidWorld, 0, 8)) \o Counted(<<100>>) \o Counted(<<110>>)>>,
     <<4, Le32(4) \o <<7, 0, 0, 0>> \o <<12>> \o SidWorld \o Counted(<<100>>) \o Counted(<<>>)>>,
     <<4, Le32(4) \o <<7, 0, 0, 0>> \o <<0>> \o Counted(<<>>) \o Counted(<<110>>)>>,
     <<3, Counted(<<7, 0, 0, 0, 1, 2>>)>>,
     <<9, Counted(<<7, 0, 0, 0>>)>>,
     <<0, <<>> >>}

TrustRecordInputs ==
    {TrustRecordBytes(d[1], d[2], delta) : d \in TrustRecordData, delta \in {-1, 0, 1}}

\* version 1, a record count of the number of records plus count_delta, the
\* records and the trailing bytes
TrustForestBytes(records, count_delta, trailing) ==
    <<1, 0, 0, 0>> \o Le32(Len(records) + count_delta) \o Flatten(records) \o trailing

TrustForestInputs ==
    {TrustForestBytes(x[1], x[2], trailing) :
        x \in {y \in SeqsUpTo(TrustRecordInputs, MaxRecords) \X {-1, 0, 1} :
                  Len(y[1]) + y[2] >= 0},
        trailing \in {<<>>, <<0, 0, 0>>, <<0, 0, 0, 0>>, <<200, 0, 0, 0, 9>>}}
    \cup {<<>>, <<1, 0, 0, 0, 0, 0, 0>>}

TrustInit == DecCall("TrustForestTrustInfo", TrustForestInputs)

TrustForestDecode ==
    DecReturn("TrustForestTrustInfo", TrustForestTrustInfo_try_from_bytes(dec_input))

TrustNext == TrustForestDecode

SpecTrust == TrustInit /\ [][TrustNext]_vars

(***************************************************************************)
(* TrustForestTrustInfo::try_from_bytes against the layout of its records. *)
(***************************************************************************)
\* the offset of the first of n records from the offset on whose length
\* prefix plus 4 exceeds the bytes that remain; -1 if there is none, or if
\* fewer than four bytes remain first
RECURSIVE OverlongRecordAt(_, _, _)
OverlongRecordAt(bytes, offset, n) ==
    IF n = 0 \/ offset + 4 > Len(bytes) THEN -1
    ELSE IF FieldLe32(bytes, offset) + 4 > Len(bytes) - offset THEN offset
    ELSE OverlongRecordAt(bytes, offset + 4 + FieldLe32(bytes, offset), n - 1)

\* whether fewer than n records are present from the offset on: the bytes end
\* before the length prefix of one of them
RECURSIVE RecordsMissing(_, _, _)
RecordsMissing(bytes, offset, n) ==
    IF n = 0 THEN FALSE
    ELSE IF offset + 4 > Len(bytes) THEN TRUE
    ELSE IF FieldLe32(bytes, offset) + 4 > Len(bytes) - offset THEN FALSE
    ELSE RecordsMissing(bytes, offset + 4 + FieldLe32(bytes, offset), n - 1)

TrustReturned == dec_decoder = "TrustForestTrustInfo" /\ dec_pc # "call"

\* C15: TrustForestTrustInfo::try_from_bytes returns a value or absent for
\* every byte sequence and never aborts; when the length prefix of a record
\* plus 4 exceeds the bytes that remain, or the declared record count exceeds
\* the records present, the result is absent.
C15_TrustNeverAborts ==
    TrustReturned =>
        /\ dec_pc = "returned"
        /\ (Len(dec_input) >= 8 /\
            (\/ OverlongRecordAt(dec_input, 8, FieldLe32(dec_input, 4)) >= 0
             \/ RecordsMissing(dec_input, 8, FieldLe32(dec_input, 4))))
               => dec_result = None

\* one record whose length prefix is one more than the bytes after it: the
\* call aborts
C15_OverlongAborts ==
    /\ dec_decoder = "TrustForestTrustInfo"
    /\ dec_pc = "aborted"
    /\ dec_input = <<1, 0, 0, 0>> \o <<1, 0, 0, 0>> \o TrustRecordBytes(0, Counted(<<97>>), 1)

\* what does hold: a record count that exceeds the records present makes the
\* result absent, and no call that returns returns a value when a record is
\* overlong
C15_MissingIsAbsent ==
    TrustReturned =>
        /\ (Len(dec_input) >= 8 /\ RecordsMissing(dec_input, 8, FieldLe32(dec_input, 4)))
               => dec_result = None
        /\ (Len(dec_input) >= 8 /\ OverlongRecordAt(dec_input, 8, FieldLe32(dec_input, 4)) >= 0)
               => ~IsSome(dec_result)

(***************************************************************************)
(* src/src/values/structs/dns/record.rs: DnsRecord and its counted names.  *)
(***************************************************************************)
MaxLabels == 2

\* the loop over 0..label_count of decode_count_name from position on, with
\* the name pushed so far: Some(<<ret, position>>) or None
RECURSIVE decode_count_name_labels(_, _, _, _)
decode_count_name_labels(label_slice, position, remaining, ret) ==
    IF remaining = 0 THEN Some(<<ret, position>>)
    ELSE IF position >= Len(label_slice) THEN None
    ELSE LET label_length == At(label_slice, position)
         IN  IF position + 1 + label_length > Len(label_slice) THEN None
             ELSE Try(String_from_utf8(
                          Slice(label_slice, position + 1, position + 1 + label_length)),
                      LAMBDA label_string :
                          decode_count_name_labels(
                              label_slice, position + 1 + label_length, remaining - 1,
                              ret \o label_string \o <<46>>))

\* Some(<<name, length taken>>), None, or Abort where label_slice[position]
\* is read at the end of label_slice
Data_decode_count_name(bytes) ==
    IF Len(bytes) < 2 THEN None
    ELSE IF 2 + At(bytes, 0) > Len(bytes) THEN None
    ELSE LET label_slice == Slice(bytes, 2, 2 + At(bytes, 0))
         IN  Try(decode_count_name_labels(label_slice, 0, At(bytes, 1), <<>>),
                 LAMBDA walked :
                     IF walked[2] >= Len(label_slice) THEN Abort
                     ELSE IF At(label_slice, walked[2]) # 0 THEN None
                     ELSE IF walked[2] + 1 # Len(label_slice) THEN None
                     ELSE Some(<<walked[1], 2 + At(bytes, 0)>>))

\* the kinds of one name, of two names, and of a preference and a name
NodeNameKinds == {2, 3, 4, 5, 7, 8, 9, 12, 39}
MailboxKinds == {14, 17}
PreferenceNameKinds == {15, 18, 21}
BytesKinds == {10, 49}

\* a kind that no arm of the match names
DnsOtherKind == 99

\* the kinds of record whose arm of Data::try_from_bytes is modelled
DnsModelledKinds ==
    NodeNameKinds \cup MailboxKinds \cup PreferenceNameKinds \cup BytesKinds
        \cup {DnsOtherKind}

\* the arms 0x02|0x03|..., 0x0E|0x11, 0x0F|0x12|0x15, 0x0A|0x31 and other
Data_try_from_bytes(kind, bytes) ==
    IF kind \in NodeNameKinds
    THEN Try(Data_decode_count_name(bytes), LAMBDA name :
             IF name[2] # Len(bytes) THEN None
             ELSE Some(<<"NodeName", kind, name[1]>>))
    ELSE IF kind \in MailboxKinds
    THEN IF Len(bytes) < 2 THEN None
         ELSE Try(Data_decode_count_name(bytes), LAMBDA mailbox :
                  Try(Data_decode_count_name(SliceFrom(bytes, mailbox[2])),
                      LAMBDA error_mailbox :
                          IF mailbox[2] + error_mailbox[2] # Len(bytes) THEN None
                          ELSE Some(<<"Mailbox", kind, mailbox[1], error_mailbox[1]>>)))
    ELSE IF kind \in PreferenceNameKinds
    THEN IF Len(bytes) < 3 THEN None
         ELSE Try(Data_decode_count_name(SliceFrom(bytes, 2)), LAMBDA name :
                  IF 2 + name[2] # Len(bytes) THEN None
                  ELSE Some(<<"PreferenceName", kind, 256 * At(bytes, 0) + At(bytes, 1),
                              name[1]>>))
    ELSE IF kind \in BytesKinds THEN Some(<<"Bytes", kind, bytes>>)
    ELSE Some(<<"Other", kind, bytes>>)

DnsRecord_try_from_bytes(bytes) ==
    IF Len(bytes) < 24 THEN None
    ELSE IF Len(bytes) # 24 + u16_from_le_bytes(Slice(bytes, 0, 2)) THEN None
    ELSE Try(Data_try_from_bytes(u16_from_le_bytes(Slice(bytes, 2, 4)), SliceFrom(bytes, 24)),
             LAMBDA data :
                 Some(<<u16_from_le_bytes(Slice(bytes, 4, 6)),
                        bits_from_le_bytes(Slice(bytes, 6, 8)),
                        Slice(bytes, 8, 12), Slice(bytes, 12, 16),
                        Slice(bytes, 16, 20), Slice(bytes, 20, 24), data>>))

\* labels "a", "bc" and a label that is not UTF-8
LabelInputs == {<<1, 97>>, <<2, 98, 99>>, <<1, 255>>}

\* a counted name: a total length of what follows the label count plus
\* len_delta, a label count of the number of labels plus count_delta, the
\* labels and what ends them
CountNameBytes(labels, ending, len_delta, count_delta) ==
    LET body == Flatten(labels) \o ending
    IN  <<Len(body) + len_delta, Len(labels) + count_delta>> \o body

CountNameInputs ==
    {CountNameBytes(x[1], x[3], x[4], x[2]) :
        x \in {y \in SeqsUpTo(LabelInputs, MaxLabels) \X {-1, 0, 1}
                         \X {<<0>>, <<>>, <<1>>, <<0, 0>>} \X {-1, 0, 1} :
                  /\ Len(y[1]) + y[2] >= 0
                  /\ Len(Flatten(y[1])) + Len(y[3]) + y[4] >= 0}}

\* the names "a." and "", complete
FewCountNames == {<<3, 1, 1, 97, 0>>, <<1, 0, 0>>}

DnsDataInputs ==
    {<<2, name \o trailing>> : name \in CountNameInputs, trailing \in {<<>>, <<0>>}}
    \cup {<<14, name \o second>> : name \in CountNameInputs, second \in FewCountNames}
    \cup {<<17, second \o name>> : name \in CountNameInputs, second \in FewCountNames}
    \cup {<<15, <<0, 10>> \o name>> : name \in CountNameInputs}
    \cup {<<10, <<1, 2, 3>> >>, <<DnsOtherKind, <<>> >>, <<39, <<>> >>, <<15, <<0, 10>> >>}

\* a record of a kind and its data, with a data length of the length of the
\* data plus len_delta
DnsRecordBytes(kind, data, len_delta) ==
    Le16(Len(data) + len_delta) \o Le16(kind) \o Le16(240) \o Le16(0)
        \o <<1, 0, 0, 0>> \o <<16, 14, 0, 0>> \o <<0, 0, 0, 0>> \o <<0, 0, 0, 0>> \o data

DnsRecordInputs ==
    {DnsRecordBytes(d[1], d[2], 0) : d \in DnsDataInputs}
    \cup {DnsRecordBytes(2, <<3, 1, 1, 97, 0>>, 1), <<>>, <<2, 0, 2, 0>>}

DnsInit == DecCall("DnsRecord", DnsRecordInputs)

DnsRecordDecode == DecReturn("DnsRecord", DnsRecord_try_from_bytes(dec_input))

DnsNext == DnsRecordDecode

SpecDns == DnsInit /\ [][DnsNext]_vars

(***************************************************************************)
(* The counted names of a DnsRecord against their layout.                  *)
(***************************************************************************)
\* the offset after n labels from the offset on; -1 if a label does not fit
RECURSIVE LabelsEnd(_, _, _)
LabelsEnd(label_slice, offset, n) ==
    IF n = 0 THEN offset
    ELSE IF offset >= Len(label_slice) THEN -1
    ELSE IF offset + 1 + label_slice[offset + 1] > Len(label_slice) THEN -1
    ELSE LabelsEnd(label_slice, offset + 1 + label_slice[offset + 1], n - 1)

\* the kind of the record that was decoded, and the offset in its data of
\* its first counted name
DnsKindOf(bytes) == FieldLe16(bytes, 2)
DnsNameOffset(bytes) == IF DnsKindOf(bytes) \in PreferenceNameKinds THEN 26 ELSE 24

\* the first counted name of the record ends well: after the declared number
\* of labels comes a zero byte, the last byte of the declared length
FirstNameTerminated(bytes) ==
    LET at == DnsNameOffset(bytes)
        declared == bytes[at + 1]
        label_slice == Slice(bytes, at + 2, at + 2 + declared)
        end == LabelsEnd(label_slice, 0, bytes[at + 2])
    IN  /\ Len(bytes) >= at + 2 + declared
        /\ end >= 0
        /\ end + 1 = declared
        /\ label_slice[end + 1] = 0

DnsReturned == dec_decoder = "DnsRecord" /\ dec_pc # "call"

DnsHasName(bytes) ==
    Len(bytes) >= 24 /\
    DnsKindOf(bytes) \in NodeNameKinds \cup MailboxKinds \cup PreferenceNameKinds

\* C16: decoding the counted names of a DnsRecord is total: the result is a
\* record or absent, never an out-of-bounds access, also for a declared name
\* length of 0 and for labels that fill the declared length; and a name is
\* accepted only if the byte after the declared number of labels is 0x00 and
\* is the last byte of the declared length.
C16_CountNameTotal ==
    DnsReturned =>
        /\ dec_pc = "returned"
        /\ (IsSome(dec_result) /\ DnsHasName(dec_input)) => FirstNameTerminated(dec_input)

\* a name server record whose name declares length 0 and no labels: the read
\* of label_slice[0] aborts
C16_EmptyNameAborts ==
    /\ dec_decoder = "DnsRecord"
    /\ dec_pc = "aborted"
    /\ dec_input = DnsRecordBytes(2, <<0, 0>>, 0)

\* what does hold: every name that is accepted is terminated
C16_AcceptedNamesTerminated ==
    (DnsReturned /\ IsSome(dec_result) /\ DnsHasName(dec_input))
        => FirstNameTerminated(dec_input)

(***************************************************************************)
(* src/src/values/structs/security/key_credential_link.rs                  *)
(***************************************************************************)
MaxEntries == 2

\* the 1-based index of the first sep in chars from the index from on, 0 if
\* there is none
first_index_of(chars, sep, from) ==
    IF \A i \in from..Len(chars) : chars[i] # sep THEN 0
    ELSE CHOOSE k \in from..Len(chars) :
             chars[k] = sep /\ \A j \in from..(k - 1) : chars[j] # sep

IsUpperHexDigit(c) == \E d \in 1..16 : UpperHexChars[d] = c

UpperHexVal(c) == (CHOOSE d \in 1..16 : UpperHexChars[d] = c) - 1

\* BINARY_AND_DN_RE.captures: ^B:([0-9]+):((?:[0-9A-F][0-9A-F])+):(.*)$ as
\* Some(<<hexlength, hexstring, dn>>); "." does not match a line feed
BINARY_AND_DN_RE_captures(string) ==
    IF ~starts_with(string, <<"B", ":">>) THEN None
    ELSE LET colon2 == first_index_of(string, ":", 3)
         IN  IF colon2 = 0 THEN None
             ELSE LET colon3 == first_index_of(string, ":", colon2 + 1)
                      hexlength == SubSeq(string, 3, colon2 - 1)
                  IN  IF colon3 = 0 THEN None
                      ELSE LET hexstring == SubSeq(string, colon2 + 1, colon3 - 1)
                               dn == SubSeq(string, colon3 + 1, Len(string))
                           IN  IF /\ Len(hexlength) > 0
                                  /\ \A i \in 1..Len(hexlength) : IsDigit(hexlength[i])
                                  /\ Len(hexstring) > 0
                                  /\ Len(hexstring) % 2 = 0
                                  /\ \A i \in 1..Len(hexstring) : IsUpperHexDigit(hexstring[i])
                                  /\ \A i \in 1..Len(dn) : dn[i] # "\n"
                               THEN Some(<<hexlength, hexstring, dn>>)
                               ELSE None

\* the loop over (0..hex_length).step_by(2): u8::from_str_radix of each pair
hex_decode(hex_string) ==
    [i \in 1..(Len(hex_string) \div 2) |->
        16 * UpperHexVal(hex_string[2 * i - 1]) + UpperHexVal(hex_string[2 * i])]

KeyCredentialLinkEntry_get_length(bytes) ==
    IF Len(bytes) < 3 THEN None
    ELSE LET total_length == 3 + u16_from_le_bytes(Slice(bytes, 0, 2))
         IN  IF Len(bytes) >= total_length THEN Some(total_length) ELSE None

\* data_slice.get(i).copied()
slice_get(data_slice, i) == IF i < Len(data_slice) THEN Some(At(data_slice, i)) ELSE None

\* the encoded_extended_cki of custom key information of more than two bytes
cki_encoded_extended(data_slice) ==
    IF Len(data_slice) > 17
    THEN IF Len(data_slice) # 18 + At(data_slice, 17) THEN None
         ELSE Some(<<At(data_slice, 16), SliceFrom(data_slice, 18)>>)
    ELSE None

\* the arm 0x07: data_slice.len() - 6 underflows below six bytes, which
\* panics at once with overflow checks and at the slice 6..16 without them
KeyCredentialLinkEntry_custom_key_information(data_slice) ==
    IF Len(data_slice) < 2 THEN None
    ELSE IF Len(data_slice) = 2
    THEN Some(<<"CustomKeyInformationShort", At(data_slice, 0),
                bits_from_le_bytes(<<At(data_slice, 1)>>)>>)
    ELSE IF Len(data_slice) < 6 THEN Abort
    ELSE LET len_minus_6 == Len(data_slice) - 6
             reserved_length == IF len_minus_6 < 10 THEN len_minus_6 ELSE 10
         IN  Some(<<"CustomKeyInformationLong", At(data_slice, 0),
                    bits_from_le_bytes(<<At(data_slice, 1)>>), At(data_slice, 2),
                    slice_get(data_slice, 3), slice_get(data_slice, 4),
                    slice_get(data_slice, 5),
                    Slice(data_slice, 6, 6 + reserved_length),
                    cki_encoded_extended(data_slice)>>)

KeyCredentialLinkEntry_try_from_bytes(bytes) ==
    IF Len(bytes) < 3 THEN None
    ELSE IF Len(bytes) # 3 + u16_from_le_bytes(Slice(bytes, 0, 2)) THEN None
    ELSE LET identifier == At(bytes, 2)
             data_slice == SliceFrom(bytes, 3)
         IN  CASE identifier = 1 -> Some(<<"KeyId", data_slice>>)
               [] identifier = 2 -> Some(<<"KeyHash", data_slice>>)
               [] identifier = 3 -> Some(<<"KeyMaterial", data_slice>>)
               [] identifier = 4 ->
                      IF Len(data_slice) # 1 THEN None
                      ELSE Some(<<"KeyUsage", At(data_slice, 0)>>)
               [] identifier = 5 ->
                      IF Len(data_slice) # 1 THEN None
                      ELSE Some(<<"KeySource", At(data_slice, 0)>>)
               [] identifier = 6 -> Some(<<"DeviceId", data_slice>>)
               [] identifier = 7 ->
                      KeyCredentialLinkEntry_custom_key_information(data_slice)
               [] identifier \in {8, 9} ->
                      IF Len(data_slice) # 8 THEN None
                      ELSE Some(<<IF identifier = 8
                                  THEN "KeyApproximateLastLogonTimeStamp"
                                  ELSE "KeyCreationTime", data_slice>>)
               [] OTHER -> Some(<<"Other", identifier, data_slice>>)

\* the while loop from i on with the entries pushed so far
RECURSIVE KeyCredentialLinkBlob_entries(_, _, _)
KeyCredentialLinkBlob_entries(bytes, i, entries) ==
    IF i >= Len(bytes) THEN Some(entries)
    ELSE Try(KeyCredentialLinkEntry_get_length(SliceFrom(bytes, i)), LAMBDA entry_length :
             Try(KeyCredentialLinkEntry_try_from_bytes(Slice(bytes, i, i + entry_length)),
                 LAMBDA entry :
                     KeyCredentialLinkBlob_entries(bytes, i + entry_length,
                                                   Append(entries, entry))))

\* the function after the captures; the version 0x00000200 is 00 02 00 00
KeyCredentialLinkBlob_from_captures(hex_length, hex_string, dn) ==
    IF <<Len(hex_string), 0, 0, 0>> # hex_length THEN None
    ELSE LET bytes == hex_decode(hex_string)
         IN  IF Len(bytes) < 4 THEN None
             ELSE IF Slice(bytes, 0, 4) # <<0, 2, 0, 0>> THEN None
             ELSE Try(KeyCredentialLinkBlob_entries(bytes, 4, <<>>), LAMBDA entries :
                      Some(<<Slice(bytes, 0, 4), entries, dn>>))

KeyCredentialLinkBlob_try_from_str(string) ==
    Try(BINARY_AND_DN_RE_captures(string), LAMBDA caps :
        Try(parse_u64(caps[1]), LAMBDA hex_length :
            KeyCredentialLinkBlob_from_captures(hex_length, caps[2], caps[3])))

\* the hexadecimal text of bytes
RECURSIVE HexText(_)
HexText(bytes) == IF Len(bytes) = 0 THEN <<>> ELSE fmt_02X(Head(bytes)) \o HexText(Tail(bytes))

\* an entry of an identifier and its data, with a length field of the length
\* of the data plus len_delta
KclEntryBytes(identifier, data, len_delta) ==
    Le16(Len(data) + len_delta) \o <<identifier>> \o data

\* the first n of eighteen bytes of custom key information and one byte of
\* extended data
CkiBytes == <<1, 2, 3, 1, 5, 2, 7, 8, 9, 10, 11, 12, 13, 14, 15, 16, 0, 1, 160>>

KclEntryInputs ==
    {KclEntryBytes(7, Slice(CkiBytes, 0, n), 0) : n \in {1, 2, 3, 4, 5, 6, 7, 17, 18, 19}}
    \cup {KclEntryBytes(1, <<171, 205>>, 0), KclEntryBytes(1, <<171>>, 1),
          KclEntryBytes(4, <<1>>, 0), KclEntryBytes(4, <<1, 2>>, 0),
          KclEntryBytes(9, <<0, 0, 0, 0, 0, 0, 0, 128>>, 0),
          KclEntryBytes(8, <<255, 255, 255>>, 0),
          KclEntryBytes(200, <<>>, 0), <<0, 0>>}

DnInputs == {<<"C", "N", "=", "a">>, <<>>, <<"a", ":", "b">>, <<"a", "\n">>}

\* B:<hexlen>:<hex>:<dn> of a version and entries, the hexlen the length of
\* the hex string plus len_delta
KclText(version, entries, len_delta, dn) ==
    LET hex == HexText(version \o Flatten(entries))
    IN  <<"B", ":">> \o DecimalText(Len(hex) + len_delta) \o <<":">> \o hex \o <<":">> \o dn

KclVersion == <<0, 2, 0, 0>>

KclTextInputs ==
    {KclText(KclVersion, entries, 0, <<"C", "N", "=", "a">>) :
        entries \in SeqsUpTo(KclEntryInputs, MaxEntries)}
    \cup {KclText(version, <<KclEntryBytes(4, <<1>>, 0)>>, d, dn) :
             version \in {KclVersion, <<0, 1, 0, 0>>, <<0, 2, 0>>, <<>>},
             d \in {0, 1, 2}, dn \in DnInputs}
    \cup {<<>>, <<"B">>, <<"B", ":", "8", ":", "0", "0", "0", "2", "0", "0", "0", "0">>,
          <<"B", ":", "0", "8", ":", "0", "0", "0", "2", "0", "0", "0", "0", ":">>,
          <<"B", ":", "8", ":", "0", "0", "0", "2", "0", "0", "0", "0", ":">>,
          <<"B", ":", "1", "0", ":", "0", "0", "0", "2", "0", "0", "0", "0", "a", "b", ":">>,
          <<"B", ":", "9", ":", "0", "0", "0", "2", "0", "0", "0", "0", "0", ":">>,
          <<"X", ":", "8", ":", "0", "0", "0", "2", "0", "0", "0", "0", ":">>,
          <<"B", ":", ":", "0", "0", "0", "2", "0", "0", "0", "0", ":">>,
          <<"B", ":", "9", "9", "9", "9", "9", "9", "9", "9", "9", "9", "9", "9", "9", "9",
            "9", "9", "9", "9", "9", "9", "9", ":", "0", "0", ":">>}

KclInit == DecCall("KeyCredentialLinkBlob", KclTextInputs)

KeyCredentialLinkDecode ==
    DecReturn("KeyCredentialLinkBlob", KeyCredentialLinkBlob_try_from_str(dec_input))

KclNext == KeyCredentialLinkDecode

SpecKcl == KclInit /\ [][KclNext]_vars

(***************************************************************************)
(* KeyCredentialLinkBlob::try_from_str against the format of the text.     *)
(***************************************************************************)
\* the value of a text of decimal digits of at most nine digits, -1 above
RECURSIVE DecimalValue(_)
DecimalValue(digits) ==
    IF Len(digits) = 0 THEN 0
    ELSE LET front == DecimalValue(SubSeq(digits, 1, Len(digits) - 1))
         IN  IF front < 0 \/ front >= 100000000 THEN -1
             ELSE 10 * front + DigitVal(digits[Len(digits)])

\* the text is B:<hexlen>:<hex>:<dn>, hexlen digits and hex an even number
\* of hexadecimal digits, with colons at the indices i and j
KclMatches(text, i, j) ==
    /\ 3 < i /\ i + 2 < j /\ j <= Len(text)
    /\ text[1] = "B" /\ text[2] = ":" /\ text[i] = ":" /\ text[j] = ":"
    /\ \A k \in 3..(i - 1) : IsDigit(text[k])
    /\ \A k \in (i + 1)..(j - 1) : IsUpperHexDigit(text[k])
    /\ (j - i - 1) % 2 = 0

\* whether entries, each of three bytes and its declared length, tile the
\* bytes from the offset on exactly
RECURSIVE KclEntriesTile(_, _)
KclEntriesTile(bytes, offset) ==
    IF offset = Len(bytes) THEN TRUE
    ELSE IF offset + 3 > Len(bytes) THEN FALSE
    ELSE IF offset + 3 + FieldLe16(bytes, offset) > Len(bytes) THEN FALSE
    ELSE KclEntriesTile(bytes, offset + 3 + FieldLe16(bytes, offset))

KclWellFormed(text) ==
    \E i, j \in 1..Len(text) :
        /\ KclMatches(text, i, j)
        /\ DecimalValue(SubSeq(text, 3, i - 1)) = j - i - 1
        /\ LET bytes == hex_decode(SubSeq(text, i + 1, j - 1))
           IN  /\ Len(bytes) >= 4
               /\ Slice(bytes, 0, 4) = <<0, 2, 0, 0>>
               /\ KclEntriesTile(bytes, 4)

KclReturned == dec_decoder = "KeyCredentialLinkBlob" /\ dec_pc # "call"

\* C17: KeyCredentialLinkBlob::try_from_str returns a value or absent for
\* every text and never aborts, also for an entry of identifier 0x07 with 3,
\* 4 or 5 bytes of data; it is absent unless the text is B:<hexlen>:<hex>:<dn>
\* with hexlen the length of the hex string, the first four bytes the version
\* 0x00000200 and the entries tiling the remaining bytes exactly.
C17_KclTotal ==
    KclReturned =>
        /\ dec_pc = "returned"
        /\ IsSome(dec_result) => KclWellFormed(dec_input)

\* one entry of identifier 0x07 and three bytes of data: the call aborts
C17_ShortCustomKeyAborts ==
    /\ dec_decoder = "KeyCredentialLinkBlob"
    /\ dec_pc = "aborted"
    /\ dec_input = KclText(KclVersion, <<KclEntryBytes(7, <<1, 2, 3>>, 0)>>, 0,
                            <<"C", "N", "=", "a">>)

\* what does hold: a blob is returned only for a well-formed text
C17_ValueOnlyIfWellFormed ==
    (KclReturned /\ IsSome(dec_result)) => KclWellFormed(dec_input)

(***************************************************************************)
(* src/src/values.rs: utc_seconds_relative_to_1601.  An i64 is its sign    *)
(* and its magnitude in four 16-bit limbs.                                 *)
(***************************************************************************)
\* the four limbs of eight little-endian bytes
u64_from_le_bytes(b) ==
    <<b[1] + 256 * b[2], b[3] + 256 * b[4], b[5] + 256 * b[6], b[7] + 256 * b[8]>>

\* i64::from_le_bytes as <<negative, magnitude>>: the two's complement of a
\* pattern whose top bit is set
i64_from_le_bytes(b) ==
    LET pattern == u64_from_le_bytes(b)
        complement == [i \in 1..4 |-> 65535 - pattern[i]]
    IN  IF pattern[4] >= 32768
        THEN <<TRUE, BigMulAdd(complement, 1, 1).limbs>>
        ELSE <<FALSE, pattern>>

\* i64::MAX / 1000, the seconds a TimeDelta holds at most
TimeDeltaMaxSecs == <<21495, 42467, 50331, 32>>

\* the seconds from 1601-01-01 to the last second of the year 262142, and
\* from the first second of the year -262143 to 1601-01-01: the range of a
\* DateTime<Utc>
DateTimeMaxSecs == <<64639, 20506, 1914, 0>>
DateTimeMinSecs == <<53888, 55010, 1937, 0>>

\* TimeDelta::seconds panics out of its bounds, and so does the addition to
\* WINDOWS_EPOCH out of the range of DateTime; otherwise the time is the
\* seconds since 1601 that it is made of
utc_seconds_relative_to_1601(seconds) ==
    IF BigGreater(seconds[2], TimeDeltaMaxSecs) THEN Abort
    ELSE IF BigGreater(seconds[2], IF seconds[1] THEN DateTimeMinSecs ELSE DateTimeMaxSecs)
    THEN Abort
    ELSE Some(seconds)

(***************************************************************************)
(* src/src/values/structs/replication.rs: ReplUpToDateVector2.             *)
(***************************************************************************)
MaxCursors == 2

Repl2Cursor_try_from_bytes(bytes) ==
    IF Len(bytes) # 32 THEN None
    ELSE Try(utc_seconds_relative_to_1601(i64_from_le_bytes(Slice(bytes, 24, 32))),
             LAMBDA time_last_sync_success :
                 Some(<<Slice(bytes, 0, 16), u64_from_le_bytes(Slice(bytes, 16, 24)),
                        time_last_sync_success>>))

\* the loop over 0..num_cursors_usize from i on
RECURSIVE ReplUpToDateVector2_cursors(_, _, _, _)
ReplUpToDateVector2_cursors(bytes, i, num_cursors, cursors) ==
    IF i >= num_cursors THEN Some(cursors)
    ELSE Try(Repl2Cursor_try_from_bytes(Slice(bytes, 16 + i * 32, 16 + i * 32 + 32)),
             LAMBDA cursor :
                 ReplUpToDateVector2_cursors(bytes, i + 1, num_cursors,
                                             Append(cursors, cursor)))

ReplUpToDateVector2_try_from_bytes(bytes) ==
    IF Len(bytes) < 16 THEN None
    ELSE IF u32_from_le_bytes(Slice(bytes, 0, 4)) # <<2, 0>> THEN None
    ELSE LET num_cursors == usize_from_le_bytes(Slice(bytes, 8, 12))
         IN  IF Len(bytes) # 16 + num_cursors * 32 THEN None
             ELSE Try(ReplUpToDateVector2_cursors(bytes, 0, num_cursors, <<>>),
                      LAMBDA cursors :
                          Some(<<Slice(bytes, 0, 4), Slice(bytes, 4, 8),
                                 Slice(bytes, 12, 16), cursors>>))

\* seconds since 1601 as eight bytes: 0, 2^32 + 1, -1, 2^48, i64::MAX,
\* i64::MIN, and i64::MAX / 1000 + 1
SecondsInputs ==
    {<<0, 0, 0, 0, 0, 0, 0, 0>>, <<1, 0, 0, 0, 1, 0, 0, 0>>,
     <<255, 255, 255, 255, 255, 255, 255, 255>>, <<0, 0, 0, 0, 0, 0, 1, 0>>,
     <<255, 255, 255, 255, 255, 255, 255, 127>>, <<0, 0, 0, 0, 0, 0, 0, 128>>,
     <<248, 83, 227, 165, 155, 196, 32, 0>>}

\* the seconds whose time is within the range of DateTime
SecondsInRange ==
    {<<0, 0, 0, 0, 0, 0, 0, 0>>, <<1, 0, 0, 0, 1, 0, 0, 0>>,
     <<255, 255, 255, 255, 255, 255, 255, 255>>}

CursorBytes(seconds) == GuidA \o <<9, 0, 0, 0, 0, 0, 0, 0>> \o seconds

\* a vector of a version, a cursor count of the number of cursors plus
\* count_delta, the cursors and the trailing bytes
VectorBytes(version, cursors, count_delta, trailing) ==
    Le32(version) \o <<0, 0, 0, 0>> \o Le32(Len(cursors) + count_delta) \o <<0, 0, 0, 0>>
        \o Flatten(cursors) \o trailing

VectorInputs ==
    {VectorBytes(version, x[1], x[2], trailing) :
        version \in {1, 2, 3},
        x \in {y \in SeqsUpTo({CursorBytes(s) : s \in SecondsInputs}, MaxCursors)
                         \X {-1, 0, 1} : Len(y[1]) + y[2] >= 0},
        trailing \in {<<>>, <<0>>}}
    \cup {<<>>, <<2, 0, 0, 0, 0, 0, 0, 0, 0, 0, 0, 0, 0, 0, 0>>}

VectorInit == DecCall("ReplUpToDateVector2", VectorInputs)

ReplUpToDateVector2Decode ==
    DecReturn("ReplUpToDateVector2", ReplUpToDateVector2_try_from_bytes(dec_input))

VectorNext == ReplUpToDateVector2Decode

SpecVector == VectorInit /\ [][VectorNext]_vars

(***************************************************************************)
(* ReplUpToDateVector2::try_from_bytes against the layout of the vector.   *)
(***************************************************************************)
\* version 2 and a length of 16 + 32 * the declared cursor count
VectorShapeOk(bytes) ==
    /\ Len(bytes) >= 16
    /\ FieldLe32(bytes, 0) = 2
    /\ Len(bytes) = 16 + 32 * FieldLe32(bytes, 8)

VectorReturned == dec_decoder = "ReplUpToDateVector2" /\ dec_pc # "call"

\* C19: ReplUpToDateVector2::try_from_bytes succeeds exactly when the input
\* has version 2 and a length of 16 + 32 * the declared cursor count, and
\* for every such input it returns a value without aborting, whatever the
\* 64-bit last-success timestamp of each cursor.
C19_VectorSucceedsExactly ==
    VectorReturned =>
        /\ dec_pc = "returned"
        /\ IsSome(dec_result) <=> VectorShapeOk(dec_input)

\* one cursor whose timestamp is i64::MAX seconds: the call aborts
C19_MaxSecondsAborts ==
    /\ dec_decoder = "ReplUpToDateVector2"
    /\ dec_pc = "aborted"
    /\ dec_input = VectorBytes(2, <<CursorBytes(<<255, 255, 255, 255, 255, 255, 255, 127>>)>>,
                               0, <<>>)

\* the timestamps of the cursors from the offset on are within the range
RECURSIVE CursorTimesInRange(_, _)
CursorTimesInRange(bytes, offset) ==
    IF offset + 32 > Len(bytes) THEN TRUE
    ELSE /\ Slice(bytes, offset + 24, offset + 32) \in SecondsInRange
         /\ CursorTimesInRange(bytes, offset + 32)

\* what does hold: a value is returned only for a vector of the right shape,
\* and for each one whose timestamps are within the range of DateTime
C19_VectorInRangeSucceeds ==
    VectorReturned =>
        /\ IsSome(dec_result) => VectorShapeOk(dec_input)
        /\ (VectorShapeOk(dec_input) /\ CursorTimesInRange(dec_input, 16))
               => IsSome(dec_result)

(***************************************************************************)
(* src/src/values/structs/replication.rs: RepsFromTo and its other DRA.    *)
(***************************************************************************)
\* the Option<String> at an offset, or Abort
nul_terminated_utf16le_string_at_offset(bytes, offset, zero_offset_is_null) ==
    IF zero_offset_is_null /\ offset = 0 THEN None
    ELSE IF offset > Len(bytes) THEN Abort
    ELSE nul_terminated_utf16le_string(SliceFrom(bytes, offset))

MtxAddr_try_from_bytes(bytes) ==
    IF Len(bytes) < 1 THEN None
    ELSE IF At(bytes, 0) > Len(bytes) - 1 THEN None
    ELSE Some(<<"V1", Slice(bytes, 1, 1 + At(bytes, 0))>>)

\* the fields of a DsaRpcInst whose offsets are within bytes
DsaRpcInst_fields(bytes, server_offset, annotation_offset, instance_offset, guid_offset) ==
    LET server == nul_terminated_utf16le_string_at_offset(bytes, server_offset, TRUE)
        annotation == nul_terminated_utf16le_string_at_offset(bytes, annotation_offset, TRUE)
        instance == nul_terminated_utf16le_string_at_offset(bytes, instance_offset, TRUE)
        instance_guid == IF guid_offset > 0
                         THEN Some(Slice(bytes, guid_offset, guid_offset + 16))
                         ELSE None
    IN  IF IsAbort(server) \/ IsAbort(annotation) \/ IsAbort(instance) THEN Abort
        ELSE Some(<<"V2", server, annotation, instance, instance_guid>>)

\* bytes[0..4] of fewer than four bytes aborts
DsaRpcInst_try_from_bytes(bytes) ==
    IF ~SliceOk(bytes, 0, 4) THEN Abort
    ELSE LET byte_count == usize_from_le_bytes(Slice(bytes, 0, 4))
         IN  IF byte_count > Len(bytes) THEN None
             ELSE IF byte_count < 20 THEN None
             ELSE LET server_offset == usize_from_le_bytes(Slice(bytes, 4, 8))
                      annotation_offset == usize_from_le_bytes(Slice(bytes, 8, 12))
                      instance_offset == usize_from_le_bytes(Slice(bytes, 12, 16))
                      instance_guid_offset == usize_from_le_bytes(Slice(bytes, 16, 20))
                  IN  IF server_offset >= Len(bytes) THEN None
                      ELSE IF annotation_offset >= Len(bytes) THEN None
                      ELSE IF instance_offset >= Len(bytes) THEN None
                      ELSE IF instance_guid_offset > 0
                              /\ instance_guid_offset + 16 > Len(bytes) THEN None
                      ELSE DsaRpcInst_fields(bytes, server_offset, annotation_offset,
                                             instance_offset, instance_guid_offset)

\* the other DRA of a version 1 or 2 from its slice
RepsFromTo_other_dra(version, other_dra_slice) ==
    IF version = <<1, 0>> THEN MtxAddr_try_from_bytes(other_dra_slice)
    ELSE DsaRpcInst_try_from_bytes(other_dra_slice)

\* the header is 212 bytes
RepsHeaderLen == 212

RepsFromTo_try_from_bytes(bytes) ==
    IF Len(bytes) < RepsHeaderLen THEN None
    ELSE IF u32_from_le_bytes(Slice(bytes, 0, 4)) \notin {<<1, 0>>, <<2, 0>>} THEN None
    ELSE IF usize_from_le_bytes(Slice(bytes, 8, 12)) > Len(bytes) THEN None
    ELSE LET other_dra_offset == usize_from_le_bytes(Slice(bytes, 36, 40))
             other_dra_length == usize_from_le_bytes(Slice(bytes, 40, 44))
         IN  IF other_dra_offset + other_dra_length > Len(bytes) THEN None
             ELSE Try(RepsFromTo_other_dra(
                          u32_from_le_bytes(Slice(bytes, 0, 4)),
                          Slice(bytes, other_dra_offset, other_dra_offset + other_dra_length)),
                      LAMBDA other_dra :
                  Try(utc_seconds_relative_to_1601(i64_from_le_bytes(Slice(bytes, 16, 24))),
                      LAMBDA time_last_success :
                  Try(utc_seconds_relative_to_1601(i64_from_le_bytes(Slice(bytes, 24, 32))),
                      LAMBDA time_last_attempt :
                          Some(<<Slice(bytes, 0, 4), Slice(bytes, 4, 8), Slice(bytes, 12, 16),
                                 time_last_success, time_last_attempt,
                                 Slice(bytes, 32, 36), other_dra, Slice(bytes, 44, 48),
                                 Slice(bytes, 48, 132), Slice(bytes, 132, 136),
                                 Slice(bytes, 136, 160), Slice(bytes, 160, 176),
                                 Slice(bytes, 176, 192), Slice(bytes, 192, 208),
                                 Slice(bytes, 208, 212)>>))))

\* n zero bytes
Zeros(n) == [i \in 1..n |-> 0]

\* a DsaRpcInst of a byte count of its length plus count_delta, its four
\* offsets and what follows them
DsaRpcInstBytes(count_delta, server, annotation, instance, guid, data) ==
    Le32(20 + Len(data) + count_delta) \o Le32(server) \o Le32(annotation)
        \o Le32(instance) \o Le32(guid) \o data

\* "a" and a NUL; "a" and a single byte; a NUL and a single byte; a lone high
\* surrogate and a NUL; a GUID
DsaRpcData ==
    {<<97, 0, 0, 0>>, <<97, 0, 98>>, <<0, 0, 98>>, <<0, 216, 0, 0>>, GuidA, <<>>}

\* the sub-records of version 2: whole ones, and ones of fewer than four or
\* of fewer than twenty bytes
DsaRpcInstInputs ==
    {DsaRpcInstBytes(cd, s, 0, i, g, data) :
        cd \in {0, 1}, s \in {0, 20, 21, 24}, i \in {0, 20}, g \in {0, 20}, data \in DsaRpcData}
    \cup {<<>>, <<20, 0, 0>>, <<20, 0, 0, 0>>, Le32(19) \o Zeros(15)}

\* the sub-records of version 1
MtxAddrInputs == {<<2, 97, 98>>, <<5, 97>>, <<0>>, <<>>}

\* the 212 bytes of the header
RepsHeaderBytes(version, cb, secs_last_success, secs_last_attempt, dra_offset, dra_length) ==
    Le32(version) \o Zeros(4) \o Le32(cb) \o <<3, 0, 0, 0>>
        \o secs_last_success \o secs_last_attempt \o Zeros(4)
        \o Le32(dra_offset) \o Le32(dra_length) \o <<16, 0, 0, 0>>
        \o Zeros(84) \o Zeros(4) \o Zeros(24) \o GuidA \o GuidB \o GuidA \o Zeros(4)

\* the (offset, length) pairs for a sub-record that follows the header: the
\* sub-record itself, one byte more, an offset beyond the end, and nothing
OtherDraPairs(sub) ==
    {<<RepsHeaderLen, Len(sub)>>, <<RepsHeaderLen, Len(sub) + 1>>,
     <<RepsHeaderLen + Len(sub) + 1, 0>>, <<RepsHeaderLen + Len(sub), 0>>}

SecondsNow == <<1, 0, 0, 0, 1, 0, 0, 0>>

RepsInputs ==
    UNION {{RepsHeaderBytes(x[1], RepsHeaderLen + Len(x[2]) + cbd, SecondsNow, SecondsNow,
                            pair[1], pair[2]) \o x[2] :
               cbd \in {0, 1}, pair \in OtherDraPairs(x[2])} :
           x \in ({1} \X MtxAddrInputs) \cup ({2} \X DsaRpcInstInputs)}
    \cup {RepsHeaderBytes(version, RepsHeaderLen + 3, s1, SecondsNow, RepsHeaderLen, 3)
              \o <<2, 97, 98>> :
             version \in {0, 1, 3}, s1 \in SecondsInputs}
    \cup {Zeros(211), <<>>}

RepsInit == DecCall("RepsFromTo", RepsInputs)

RepsFromToDecode == DecReturn("RepsFromTo", RepsFromTo_try_from_bytes(dec_input))

RepsNext == RepsFromToDecode

SpecReps == RepsInit /\ [][RepsNext]_vars

(***************************************************************************)
(* RepsFromTo::try_from_bytes against the layout of the value.             *)
(***************************************************************************)
RepsVersion(bytes) == FieldLe32(bytes, 0)
OtherDraOffset(bytes) == FieldLe32(bytes, 36)
OtherDraLength(bytes) == FieldLe32(bytes, 40)

\* the (offset, length) pair of the other DRA lies within the buffer
OtherDraWithin(bytes) == OtherDraOffset(bytes) + OtherDraLength(bytes) <= Len(bytes)

\* from the offset on, the bytes are 16-bit words none of which is zero and
\* then a single byte
RECURSIVE OddUnterminated(_, _)
OddUnterminated(bytes, offset) ==
    IF offset >= Len(bytes) THEN FALSE
    ELSE IF offset + 1 = Len(bytes) THEN TRUE
    ELSE IF FieldLe16(bytes, offset) = 0 THEN FALSE
    ELSE OddUnterminated(bytes, offset + 2)

\* the sub-record of version 2 is too short for its header: fewer than four
\* bytes, or a string offset that leads to an odd number of bytes with no NUL
SubRecordTooShort(sub) ==
    \/ Len(sub) < 4
    \/ /\ Len(sub) >= 20
       /\ \E field \in {4, 8, 12} :
              /\ FieldLe32(sub, field) > 0
              /\ FieldLe32(sub, field) < Len(sub)
              /\ OddUnterminated(sub, FieldLe32(sub, field))

RepsReturned == dec_decoder = "RepsFromTo" /\ dec_pc # "call"

\* C18: RepsFromTo::try_from_bytes returns a value or absent for every input
\* of at least 212 bytes with version 1 or 2 and never aborts; it is absent
\* when the (offset, length) pair of the other DRA does not lie within the
\* buffer, and when the sub-record of version 2 is too short for its header;
\* versions other than 1 and 2 are always absent.
C18_RepsTotal ==
    (RepsReturned /\ Len(dec_input) >= RepsHeaderLen) =>
        /\ dec_pc = "returned"
        /\ RepsVersion(dec_input) \notin {1, 2} => dec_result = None
        /\ ~OtherDraWithin(dec_input) => dec_result = None
        /\ (RepsVersion(dec_input) = 2 /\ OtherDraWithin(dec_input)
             /\ SubRecordTooShort(Slice(dec_input, OtherDraOffset(dec_input),
                                        OtherDraOffset(dec_input) + OtherDraLength(dec_input))))
               => dec_result = None

\* version 2 with a sub-record of three bytes: the call aborts
C18_ShortSubRecordAborts ==
    /\ dec_decoder = "RepsFromTo"
    /\ dec_pc = "aborted"
    /\ dec_input = RepsHeaderBytes(2, RepsHeaderLen + 3, SecondsNow, SecondsNow,
                                   RepsHeaderLen, 3) \o <<20, 0, 0>>

\* what does hold: versions other than 1 and 2 and a pair that is not within
\* the buffer make the result absent, and no value is returned for a
\* sub-record that is too short
C18_OutsideIsAbsent ==
    (RepsReturned /\ Len(dec_input) >= RepsHeaderLen) =>
        /\ RepsVersion(dec_input) \notin {1, 2} => dec_result = None
        /\ ~OtherDraWithin(dec_input) => dec_result = None
        /\ (RepsVersion(dec_input) = 2 /\ OtherDraWithin(dec_input)
             /\ SubRecordTooShort(Slice(dec_input, OtherDraOffset(dec_input),
                                        OtherDraOffset(dec_input) + OtherDraLength(dec_input))))
               => ~IsSome(dec_result)

(***************************************************************************)
(* src/src/values.rs: output_values and the decoders it tries.  A value is *)
(* <<"String", text>> or <<"Binary", bytes>>; a call is the name of the     *)
(* function and the value it is given.                                     *)
(***************************************************************************)
MaxValues == 2

\* the attribute names of the arms of output_special_string_value, but for
\* "options"
StringSpecialKeys ==
    {"userAccountControl", "msDs-User-Account-Control-Computed",
     "msExchUserAccountControl", "groupType", "sAMAccountType",
     "domainControllerFunctionality", "domainFunctionality",
     "forestFunctionality", "msDS-Behavior-Version",
     "msDS-RequiredDomainBehaviorVersion",
     "msDS-RequiredForestBehaviorVersion", "systemFlags", "instanceType",
     "msDS-ReplAuthenticationMode", "msDS-OptionalFeatureFlags",
     "objectClassCategory", "oMSyntax", "attributeSyntax", "primaryGroupID",
     "pwdProperties", "searchFlags", "serverState",
     "msDS-SupportedEncryptionTypes", "trustAttributes", "trustDirection",
     "trustType", "dSCorePropagationData", "msDS-KeyCredentialLink",
     "rIDAllocationPool", "rIDAvailablePool", "rIDPreviousAllocationPool",
     "rIDUsedPool", "msExchAddressBookFlags", "msExchCapabilityIdentifiers",
     "msExchELCMailboxFlags", "msExchMobileMailboxFlags",
     "msExchModerationFlags", "msExchProvisioningFlags",
     "msExchRecipientDisplayType", "msExchRecipientSoftDeletedStatus",
     "msExchRecipientTypeDetails", "msExchPreviousRecipientTypeDetails",
     "msExchRoleGroupType", "msExchTextMessagingState",
     "msExchTransportRecipientSettingsFlags", "msExchVersion",
     "internetEncoding", "accountExpires", "badPasswordTime", "creationTime",
     "lastLogoff", "lastLogon", "lastLogonTimestamp",
     "msDS-ApproximateLastLogonTimeStamp",
     "msDS-Cached-Membership-Time-Stamp",
     "msDS-KeyApproximateLastLogonTimeStamp",
     "msDS-LastSuccessfulInteractiveLogonTime",
     "msDS-LastFailedInteractiveLogonTime",
     "msDS-UserPasswordExpiryTimeComputed", "pwdLastSet",
     "supportedCapabilities", "supportedControl", "supportedExtension",
     "lockoutDuration", "lockOutObservationWindow", "maxPwdAge", "minPwdAge",
     "msDS-LockoutDuration", "msDS-LockoutObservationWindow",
     "msDS-MaximumPasswordAge", "msDS-MinimumPasswordAge", "forceLogoff"}

\* the object classes for which "options" has an arm
OptionsObjectClasses ==
    {"interSiteTransport", "nTDSConnection", "nTDSDSA", "ntDSSiteSettings",
     "siteConnection", "siteLink"}

\* the attribute names of the arms of output_special_binary_value
BinarySpecialKeys ==
    {"attributeSecurityGUID", "invocationId", "mS-DS-ConsistencyGuid",
     "msDFS-GenerationGUIDv2", "msDFS-LinkIdentityGUIDv2",
     "msDFS-NamespaceIdentityGUIDv2", "msDFSR-ContentSetGuid",
     "msDFSR-ReplicationGroupGuid", "msDS-DeviceID",
     "msDS-OptionalFeatureGuid", "msExchMailboxGuid", "netbootGuid",
     "objectGUID", "parentGUID", "schemaIDGUID", "serverClassID",
     "mS-DS-CreatorSID", "msDS-LdapQosPolicyTarget",
     "msDS-ServiceAccountSID", "msDS-ShadowPrincipalSid",
     "msExchMasterAccountSid", "objectSid", "securityIdentifier",
     "sidHistory", "tokenGroups", "tokenGroupsGlobalAndUniversal",
     "tokenGroupsNoGCAcceptable", "replUpToDateVector", "repsFrom", "repsTo",
     "dNSProperty", "dnsRecord", "dSASignature", "msDS-TrustForestTrustInfo",
     "partialAttributeSet", "msDS-Site-Affinity", "msDS-Cached-Membership",
     "prefixMap", "replPropertyMetaData", "schemaInfo", "fRSRootSecurity",
     "msExchLogonACL", "msExchMailboxSecurityDescriptor",
     "msExchPFDefaultAdminACL", "msExchSubmitRelaySD",
     "nTSecurityDescriptor", "pKIEnrollmentAccess", "msDFS-TargetListv2",
     "logonHours", "msDFSR-Schedule", "oMObjectClass", "userParameters"}

\* whether output_special_string_value has an arm for the key: every arm
\* prints the value and returns true, the last else returns false
output_special_string_value(key, value, object_classes) ==
    IF key = "options" THEN object_classes \cap OptionsObjectClasses # {}
    ELSE key \in StringSpecialKeys

\* whether output_special_binary_value has an arm for the key
output_special_binary_value(key, value) == key \in BinarySpecialKeys

\* the bytes of the characters of the values of the model
AsciiCode ==
    "0" :> 48 @@ "1" :> 49 @@ "2" :> 50 @@ "5" :> 53 @@ "a" :> 97 @@ "b" :> 98
        @@ " " :> 32 @@ "=" :> 61

\* str::as_bytes
as_bytes(str_value) == [i \in 1..Len(str_value) |-> AsciiCode[str_value[i]]]

\* the arm LdapValue::Binary of the loop body: the calls it makes
output_values_binary(key, bin_value) ==
    IF ~output_special_binary_value(key, bin_value)
    THEN <<<<"output_special_binary_value", bin_value>>,
           <<"output_binary_value_as_hexdump", bin_value>>>>
    ELSE <<<<"output_special_binary_value", bin_value>>>>

\* a loop body that tries the binary decoders before the text decoders
output_values_string_binary_first(key, str_value, object_classes) ==
    IF ~output_special_binary_value(key, as_bytes(str_value))
    THEN IF ~output_special_string_value(key, str_value, object_classes)
         THEN <<<<"output_special_binary_value", as_bytes(str_value)>>,
                <<"output_special_string_value", str_value>>,
                <<"output_string_value_as_string", str_value>>>>
         ELSE <<<<"output_special_binary_value", as_bytes(str_value)>>,
                <<"output_special_string_value", str_value>>>>
    ELSE <<<<"output_special_binary_value", as_bytes(str_value)>>>>

\* the arm LdapValue::String of the loop body: the calls it makes
output_values_string(key, str_value, object_classes) ==
    IF ~output_special_string_value(key, str_value, object_classes)
    THEN IF ~output_special_binary_value(key, as_bytes(str_value))
         THEN <<<<"output_special_string_value", str_value>>,
                <<"output_special_binary_value", as_bytes(str_value)>>,
                <<"output_string_value_as_string", str_value>>>>
         ELSE <<<<"output_special_string_value", str_value>>,
                <<"output_special_binary_value", as_bytes(str_value)>>>>
    ELSE <<<<"output_special_string_value", str_value>>>>

\* attribute names with a text decoder, with a binary decoder, with neither,
\* and "options"
KeyInputs ==
    {"groupType", "msDS-KeyCredentialLink", "objectGUID", "nTSecurityDescriptor",
     "dnsRecord", "cn", "description", "options"}

ObjectClassInputs == {{}, {"top"}, {"top", "nTDSDSA"}, {"siteLink"}}

ValueInputs ==
    {<<"String", <<"5", "1", "2">>>>, <<"String", <<"a", " ", "b">>>>, <<"String", <<>>>>,
     <<"Binary", <<1, 2>>>>, <<"Binary", <<97, 98>>>>}

OutInit ==
    /\ CoreIdle
    /\ AliasIdle
    /\ DecIdle
    /\ out_key \in KeyInputs
    /\ out_classes \in ObjectClassInputs
    /\ out_values \in SeqsUpTo(ValueInputs, MaxValues)
    /\ out_value = <<>>
    /\ out_calls = <<>>
    /\ out_pc = "loop"

\* one iteration of the loop for a binary value
output_values_Binary ==
    /\ out_pc = "loop"
    /\ Len(out_values) > 0
    /\ Head(out_values)[1] = "Binary"
    /\ out_value' = Head(out_values)
    /\ out_calls' = output_values_binary(out_key, Head(out_values)[2])
    /\ out_values' = Tail(out_values)
    /\ UNCHANGED <<out_key, out_classes, out_pc>>
    /\ UNCHANGED non_out_vars

\* one iteration of the loop for a text value
output_values_String ==
    /\ out_pc = "loop"
    /\ Len(out_values) > 0
    /\ Head(out_values)[1] = "String"
    /\ out_value' = Head(out_values)
    /\ out_calls' = output_values_string(out_key, Head(out_values)[2], out_classes)
    /\ out_values' = Tail(out_values)
    /\ UNCHANGED <<out_key, out_classes, out_pc>>
    /\ UNCHANGED non_out_vars

\* the end of the loop
output_values_return ==
    /\ out_pc = "loop"
    /\ Len(out_values) = 0
    /\ out_pc' = "done"
    /\ UNCHANGED <<out_key, out_classes, out_values, out_value, out_calls>>
    /\ UNCHANGED non_out_vars

OutNext ==
    \/ output_values_Binary
    \/ output_values_String
    \/ output_values_return

SpecOut == OutInit /\ [][OutNext]_vars

(***************************************************************************)
(* The order in which output_values falls back.                            *)
(***************************************************************************)
\* the 1-based index of the call of a function among the calls, 0 if it is
\* not called
CallIndex(calls, name) ==
    IF \A i \in 1..Len(calls) : calls[i][1] # name THEN 0
    ELSE CHOOSE i \in 1..Len(calls) : calls[i][1] = name

\* a text decoder, a binary decoder handles a value of the key
TextHandled == output_special_string_value(out_key, out_value[2], out_classes)
BinaryHandled == out_key \in BinarySpecialKeys

\* an iteration of the loop has run for a value of the kind
Iterated(kind) == Len(out_value) = 2 /\ out_value[1] = kind

\* C20: for a text value the text decoders for the attribute name are tried
\* first, the binary decoders are tried on the bytes of the value only if no
\* text decoder handled it, and the verbatim or Base64 rendering is produced
\* only if the binary decoders did not handle it either; for a binary value
\* the text decoders are never tried: it goes to the binary decoder and
\* otherwise to the hex dump.
C20_FallbackOrder ==
    /\ Iterated("String") =>
        /\ CallIndex(out_calls, "output_special_string_value") = 1
        /\ out_calls[1][2] = out_value[2]
        /\ CallIndex(out_calls, "output_special_binary_value") =
               (IF TextHandled THEN 0 ELSE 2)
        /\ ~TextHandled => out_calls[2][2] = as_bytes(out_value[2])
        /\ CallIndex(out_calls, "output_string_value_as_string") =
               (IF TextHandled \/ BinaryHandled THEN 0 ELSE 3)
        /\ CallIndex(out_calls, "output_binary_value_as_hexdump") = 0
        /\ Len(out_calls) <= 3
    /\ Iterated("Binary") =>
        /\ CallIndex(out_calls, "output_special_string_value") = 0
        /\ CallIndex(out_calls, "output_string_value_as_string") = 0
        /\ CallIndex(out_calls, "output_special_binary_value") = 1
        /\ out_calls[1][2] = out_value[2]
        /\ CallIndex(out_calls, "output_binary_value_as_hexdump") =
               (IF BinaryHandled THEN 0 ELSE 2)
        /\ Len(out_calls) <= 2

\* a text value of an attribute with a binary decoder has gone to the text
\* decoders and then, as bytes, to the binary decoder, and no further
C20_Witness ==
    /\ Iterated("String")
    /\ out_key = "objectGUID"
    /\ out_value[2] = <<"a", " ", "b">>
    /\ out_calls = <<<<"output_special_string_value", <<"a", " ", "b">>>>,
                     <<"output_special_binary_value", <<97, 32, 98>>>>>>

(***************************************************************************)
(* src/src/values.rs: output_string_value_as_string.  A string is the      *)
(* sequence of its characters as Unicode scalar values, and a printed line *)
(* is the sequence of the characters printed before the line break.        *)
(***************************************************************************)
\* longest string value
MaxChars == 3

\* str::as_bytes for one character: its UTF-8 encoding
utf8_encode_char(c) ==
    IF c < 128 THEN <<c>>
    ELSE IF c < 2048 THEN <<192 + (c \div 64), 128 + (c % 64)>>
    ELSE IF c < 65536
    THEN <<224 + (c \div 4096), 128 + ((c \div 64) % 64), 128 + (c % 64)>>
    ELSE <<240 + (c \div 262144), 128 + ((c \div 4096) % 64),
           128 + ((c \div 64) % 64), 128 + (c % 64)>>

\* str::as_bytes: the UTF-8 encoding of a string
RECURSIVE utf8_encode(_)
utf8_encode(string) ==
    IF Len(string) = 0 THEN <<>>
    ELSE utf8_encode_char(Head(string)) \o utf8_encode(Tail(string))

\* the alphabet of BASE64_STANDARD: A-Z, a-z, 0-9, + and /
BASE64_STANDARD_alphabet ==
    [i \in 0..63 |->
        IF i < 26 THEN 65 + i
        ELSE IF i < 52 THEN 71 + i
        ELSE IF i < 62 THEN i - 4
        ELSE IF i = 62 THEN 43 ELSE 47]

\* BASE64_STANDARD.encode: four characters for every three bytes, the last
\* group padded with "="
RECURSIVE BASE64_STANDARD_encode(_)
BASE64_STANDARD_encode(bytes) ==
    IF Len(bytes) = 0 THEN <<>>
    ELSE IF Len(bytes) = 1
    THEN <<BASE64_STANDARD_alphabet[bytes[1] \div 4],
           BASE64_STANDARD_alphabet[(bytes[1] % 4) * 16], 61, 61>>
    ELSE IF Len(bytes) = 2
    THEN <<BASE64_STANDARD_alphabet[bytes[1] \div 4],
           BASE64_STANDARD_alphabet[(bytes[1] % 4) * 16 + (bytes[2] \div 16)],
           BASE64_STANDARD_alphabet[(bytes[2] % 16) * 4], 61>>
    ELSE <<BASE64_STANDARD_alphabet[bytes[1] \div 4],
           BASE64_STANDARD_alphabet[(bytes[1] % 4) * 16 + (bytes[2] \div 16)],
           BASE64_STANDARD_alphabet[(bytes[2] % 16) * 4 + (bytes[3] \div 64)],
           BASE64_STANDARD_alphabet[bytes[3] % 64]>>
         \o BASE64_STANDARD_encode(SubSeq(bytes, 4, Len(bytes)))

\* a test that looks at the first character only
is_safe_ldap_string_first_only(string) ==
    IF Len(string) = 0 THEN TRUE
    ELSE ~(string[1] = 0 \/ string[1] = 10 \/ string[1] = 13 \/ string[1] = 32
            \/ string[1] = 58 \/ string[1] = 60)

\* is_safe_ldap_string
is_safe_ldap_string(string) ==
    IF Len(string) = 0 THEN TRUE
    ELSE IF string[1] = 0 \/ string[1] = 10 \/ string[1] = 13 \/ string[1] = 32
            \/ string[1] = 58 \/ string[1] = 60
    THEN FALSE
    ELSE IF \E i \in 2..Len(string) : string[i] = 0 \/ string[i] = 10 \/ string[i] = 13
    THEN FALSE
    ELSE TRUE

\* output_string_value_as_string: the line it prints
output_string_value_as_string(key, str_value) ==
    IF is_safe_ldap_string(str_value)
    THEN key \o <<58, 32>> \o str_value
    ELSE key \o <<58, 58, 32>> \o BASE64_STANDARD_encode(utf8_encode(str_value))

\* the characters of the strings: NUL, LF, CR, space, colon, less-than, "a"
\* and e with acute accent
StringChars == {0, 10, 13, 32, 58, 60, 97, 233}

\* the attribute names "cn" and "o"
StringKeys == {<<99, 110>>, <<111>>}

StringValueInputs == StringKeys \X SeqsUpTo(StringChars, MaxChars)

StrInit == DecCall("output_string_value_as_string", StringValueInputs)

StringValueOutput ==
    DecReturn("output_string_value_as_string",
              Some(output_string_value_as_string(dec_input[1], dec_input[2])))

StrNext == StringValueOutput

SpecStr == StrInit /\ [][StrNext]_vars

(***************************************************************************)
(* The line of output_string_value_as_string against LDIF's safe strings.  *)
(***************************************************************************)
\* the value of a character of the Base64 alphabet, -1 for any other
Base64Value(c) ==
    IF c \in 65..90 THEN c - 65
    ELSE IF c \in 97..122 THEN c - 71
    ELSE IF c \in 48..57 THEN c + 4
    ELSE IF c = 43 THEN 62
    ELSE IF c = 47 THEN 63
    ELSE -1

\* the bytes a padded Base64 text stands for, <<-1>> if it is not one
RECURSIVE Base64Decoded(_)
Base64Decoded(text) ==
    IF Len(text) = 0 THEN <<>>
    ELSE IF Len(text) < 4 THEN <<-1>>
    ELSE LET a == Base64Value(text[1])
             b == Base64Value(text[2])
             c == Base64Value(text[3])
             d == Base64Value(text[4])
         IN  IF a < 0 \/ b < 0 THEN <<-1>>
             ELSE IF text[3] = 61
             THEN IF Len(text) = 4 /\ text[4] = 61 /\ b % 16 = 0
                  THEN <<a * 4 + (b \div 16)>> ELSE <<-1>>
             ELSE IF c < 0 THEN <<-1>>
             ELSE IF text[4] = 61
             THEN IF Len(text) = 4 /\ c % 4 = 0
                  THEN <<a * 4 + (b \div 16), (b % 16) * 16 + (c \div 4)>>
                  ELSE <<-1>>
             ELSE IF d < 0 THEN <<-1>>
             ELSE <<a * 4 + (b \div 16), (b % 16) * 16 + (c \div 4), (c % 4) * 64 + d>>
                  \o Base64Decoded(SubSeq(text, 5, Len(text)))

\* the string may be printed as it is
PrintsVerbatim(string) ==
    \/ string = <<>>
    \/ /\ string[1] \notin {0, 10, 13, 32, 58, 60}
       /\ \A i \in 2..Len(string) : string[i] \notin {0, 10, 13}

StringValuePrinted == DecSucceeded("output_string_value_as_string")

\* C21: output_string_value_as_string prints "name: value" exactly when the
\* string is empty, or its first character is none of NUL, LF, CR, space,
\* colon, less-than and no later character is NUL, LF or CR; in every other
\* case it prints "name:: " and then the Base64 encoding of the string.
C21_SafeStringOutput ==
    StringValuePrinted =>
        LET key == dec_input[1]
            string == dec_input[2]
            line == Unwrap(dec_result)
        IN  IF PrintsVerbatim(string)
            THEN line = key \o <<58, 32>> \o string
            ELSE /\ Len(line) >= Len(key) + 3
                 /\ SubSeq(line, 1, Len(key) + 3) = key \o <<58, 58, 32>>
                 /\ Base64Decoded(SubSeq(line, Len(key) + 4, Len(line)))
                        = utf8_encode(string)

\* "a", LF, e with acute accent is printed as "cn:: YQrDqQ=="
C21_Witness ==
    /\ StringValuePrinted
    /\ dec_input = <<<<99, 110>>, <<97, 10, 233>>>>
    /\ Unwrap(dec_result) = <<99, 110, 58, 58, 32, 89, 81, 114, 68, 113, 81, 61, 61>>

(***************************************************************************)
(* 64-bit signed arithmetic and the durations of chrono.  An i64 is        *)
(* <<negative, magnitude>>, the magnitude in four limbs and zero never     *)
(* negative.  A TimeDelta is <<secs, nanos>> as chrono keeps it: secs an   *)
(* i64, nanos in 0..999999999, the duration being secs seconds plus nanos  *)
(* nanoseconds.                                                            *)
(***************************************************************************)
\* 2^63, the magnitude of i64::MIN
I64MinMagnitude == <<0, 0, 0, 32768>>

\* an i64 of a sign and a magnitude
MkI64(negative, magnitude) == <<negative /\ ~BigIsZero(magnitude), magnitude>>

\* an i64 of a small integer
I64Of(n) == IF n < 0 THEN <<TRUE, <<-n, 0, 0, 0>>>> ELSE <<FALSE, <<n, 0, 0, 0>>>>

\* x - 1 for x > 0
BigDec(x) ==
    LET i == CHOOSE k \in 1..Len(x) : x[k] # 0 /\ \A j \in 1..(k - 1) : x[j] = 0
    IN  [j \in 1..Len(x) |-> IF j < i THEN 65535 ELSE IF j = i THEN x[j] - 1 ELSE x[j]]

\* x + 1 and x - 1 for an i64 x
i64_succ(x) ==
    IF x[1] THEN MkI64(TRUE, BigDec(x[2])) ELSE <<FALSE, BigMulAdd(x[2], 1, 1).limbs>>
i64_pred(x) ==
    IF x[1] \/ BigIsZero(x[2]) THEN <<TRUE, BigMulAdd(x[2], 1, 1).limbs>>
    ELSE <<FALSE, BigDec(x[2])>>

\* -x for x above i64::MIN
i64_neg(x) == MkI64(~x[1], x[2])

\* x / d and x % d of Rust, d small and positive: the quotient is truncated
\* and the remainder has the sign of x
i64_div(x, d) == MkI64(x[1], BigDivMod(x[2], d).quot)
i64_rem(x, d) == IF x[1] THEN -BigDivMod(x[2], d).rem ELSE BigDivMod(x[2], d).rem

\* i64::div_euclid and i64::rem_euclid, d small and positive: the quotient is
\* rounded down and the remainder is not negative
i64_div_euclid(x, d) == IF i64_rem(x, d) < 0 THEN i64_pred(i64_div(x, d)) ELSE i64_div(x, d)
i64_rem_euclid(x, d) == IF i64_rem(x, d) < 0 THEN i64_rem(x, d) + d ELSE i64_rem(x, d)

\* TimeDelta::microseconds: the seconds are the microseconds div_euclid
\* 1_000_000, the nanoseconds 1000 times their rem_euclid 1_000_000
TimeDelta_microseconds(microseconds) ==
    LET millis == i64_div_euclid(microseconds, 1000)
    IN  <<i64_div_euclid(millis, 1000),
          (i64_rem_euclid(millis, 1000) * 1000 + i64_rem_euclid(microseconds, 1000)) * 1000>>

\* TimeDelta::nanoseconds of a small number of nanoseconds
TimeDelta_nanoseconds(nanoseconds) ==
    <<I64Of(IF nanoseconds < 0 THEN -1 ELSE 0),
      IF nanoseconds < 0 THEN nanoseconds + 1000000000 ELSE nanoseconds>>

\* TimeDelta + TimeDelta, the right one of less than a second in magnitude:
\* the nanoseconds carry into the seconds
TimeDelta_add(lhs, rhs) ==
    LET secs == IF rhs[1][1] THEN i64_pred(lhs[1]) ELSE lhs[1]
        nanos == lhs[2] + rhs[2]
    IN  IF nanos >= 1000000000 THEN <<i64_succ(secs), nanos - 1000000000>>
        ELSE <<secs, nanos>>

\* TimeDelta::num_seconds: the whole seconds, rounded towards zero
TimeDelta_num_seconds(delta) ==
    IF delta[1][1] /\ delta[2] > 0 THEN i64_succ(delta[1]) ELSE delta[1]

\* WINDOWS_EPOCH + delta: the time as the duration since 1601-01-01, and a
\* panic out of the range of DateTime
WINDOWS_EPOCH_plus(delta) ==
    IF BigGreater(delta[1][2], IF delta[1][1] THEN DateTimeMinSecs ELSE DateTimeMaxSecs)
    THEN Abort
    ELSE Some(delta)

\* a sum that leaves out the nanoseconds
utc_ticks_sum_microseconds_only(microseconds, nanoseconds) ==
    WINDOWS_EPOCH_plus(microseconds)

\* utc_ticks_relative_to_1601 from the two durations on: their sum, added to
\* WINDOWS_EPOCH
utc_ticks_sum(microseconds, nanoseconds) ==
    WINDOWS_EPOCH_plus(TimeDelta_add(microseconds, nanoseconds))


(***************************************************************************)
(* Decimal text of an i64, as characters.                                  *)
(***************************************************************************)
RECURSIVE i64_parse_digits(_, _, _)
i64_parse_digits(digits, i, acc) ==
    IF i > Len(digits) THEN Some(acc)
    ELSE LET r == BigMulAdd(acc, 10, digits[i] - 48)
         IN  IF r.carry # 0 THEN None ELSE i64_parse_digits(digits, i + 1, r.limbs)

\* i64::from_str_radix(value, 10): an optional "+" or "-", then at least one
\* digit, digits only, and a value from i64::MIN to i64::MAX
i64_from_str_radix(value) ==
    IF Len(value) = 0 THEN None
    ELSE LET signed == value[1] = 43 \/ value[1] = 45
             negative == value[1] = 45
             digits == IF signed THEN Tail(value) ELSE value
         IN  IF Len(digits) = 0 \/ \E i \in 1..Len(digits) : digits[i] \notin 48..57
             THEN None
             ELSE LET magnitude == i64_parse_digits(digits, 1, <<0, 0, 0, 0>>)
                  IN  IF ~IsSome(magnitude) THEN None
                      ELSE IF BigGreater(Unwrap(magnitude), I64MinMagnitude) THEN None
                      ELSE IF ~negative /\ Unwrap(magnitude) = I64MinMagnitude THEN None
                      ELSE Some(MkI64(negative, Unwrap(magnitude)))

\* "{}" of an i64
fmt_i64(x) ==
    LET digits == fmt_uint(x[2])
    IN  (IF x[1] THEN <<45>> ELSE <<>>) \o [i \in 1..Len(digits) |-> 48 + DigitVal(digits[i])]

(***************************************************************************)
(* src/src/values.rs: output_negative_interval_value.                      *)
(***************************************************************************)
\* most digits before the zeros of a value
MaxDigits == 3

\* a decomposition that counts the hours of a day up to 60
interval_parts_hours_of_60(rest) ==
    <<i64_div(i64_div(i64_div(rest, 60), 60), 60),
      i64_rem(i64_div(i64_div(rest, 60), 60), 60),
      i64_rem(i64_div(rest, 60), 60),
      i64_rem(rest, 60)>>

\* the days, hours, minutes and seconds of the seconds of the interval
interval_parts(rest) ==
    <<i64_div(i64_div(i64_div(rest, 60), 60), 24),
      i64_rem(i64_div(i64_div(rest, 60), 60), 24),
      i64_rem(i64_div(rest, 60), 60),
      i64_rem(rest, 60)>>

\* the line "{}: {} ({}d {}h {}min {}s)"
interval_line(key, value, parts) ==
    key \o <<58, 32>> \o value \o <<32, 40>>
        \o fmt_i64(parts[1]) \o <<100, 32>>
        \o fmt_i64(I64Of(parts[2])) \o <<104, 32>>
        \o fmt_i64(I64Of(parts[3])) \o <<109, 105, 110, 32>>
        \o fmt_i64(I64Of(parts[4])) \o <<115, 41>>

\* the line "{}: {} (never)"
never_line(key, value) ==
    key \o <<58, 32>> \o value \o <<32, 40, 110, 101, 118, 101, 114, 41>>

\* the seconds of the interval of a parsed value above i64::MIN
interval_seconds(parsed) ==
    TimeDelta_num_seconds(
        TimeDelta_add(TimeDelta_microseconds(i64_div(i64_neg(parsed), 10)),
                      TimeDelta_nanoseconds(i64_rem(i64_neg(parsed), 10) * 100)))

\* output_negative_interval_value: the line it prints
output_negative_interval_value(key, value) ==
    IF ~IsSome(i64_from_str_radix(value))
    THEN output_string_value_as_string(key, value)
    ELSE IF Unwrap(i64_from_str_radix(value)) = <<TRUE, I64MinMagnitude>>
    THEN never_line(key, value)
    ELSE interval_line(key, value,
                       interval_parts(interval_seconds(Unwrap(i64_from_str_radix(value)))))

\* the digits of the values, and a letter
IntervalChars == {48, 49, 54, 56, 57, 97}

\* seven and nine zeros: whole seconds, and hundreds of seconds
IntervalZeros == {<<>>, Zeros(7), Zeros(9)}

\* i64::MIN, its neighbours, i64::MAX, 2^63 and 2^64
IntervalExtremes ==
    {<<45, 57, 50, 50, 51, 51, 55, 50, 48, 51, 54, 56, 53, 52, 55, 55, 53, 56, 48, 56>>,
     <<45, 57, 50, 50, 51, 51, 55, 50, 48, 51, 54, 56, 53, 52, 55, 55, 53, 56, 48, 55>>,
     <<45, 57, 50, 50, 51, 51, 55, 50, 48, 51, 54, 56, 53, 52, 55, 55, 53, 56, 48, 57>>,
     <<57, 50, 50, 51, 51, 55, 50, 48, 51, 54, 56, 53, 52, 55, 55, 53, 56, 48, 55>>,
     <<57, 50, 50, 51, 51, 55, 50, 48, 51, 54, 56, 53, 52, 55, 55, 53, 56, 48, 56>>,
     <<45, 49, 56, 52, 52, 54, 55, 52, 52, 48, 55, 51, 55, 48, 57, 53, 53, 49, 54, 49, 54>>}

IntervalTexts ==
    {sign \o digits \o [i \in 1..Len(zeros) |-> 48] :
        sign \in {<<>>, <<43>>, <<45>>},
        digits \in SeqsUpTo(IntervalChars, MaxDigits),
        zeros \in IntervalZeros}
    \cup IntervalExtremes

\* the attribute name "maxPwdAge"
IntervalKey == <<109, 97, 120, 80, 119, 100, 65, 103, 101>>

IntervalInit == DecCall("output_negative_interval_value", {IntervalKey} \X IntervalTexts)

NegativeIntervalOutput ==
    DecReturn("output_negative_interval_value",
              Some(output_negative_interval_value(dec_input[1], dec_input[2])))

IntervalNext == NegativeIntervalOutput

SpecInterval == IntervalInit /\ [][IntervalNext]_vars

(***************************************************************************)
(* The line of output_negative_interval_value against the value of the     *)
(* text.                                                                   *)
(***************************************************************************)
\* the text is an optional sign and at least one digit
IsDecimalText(text) ==
    LET digits == IF Len(text) > 0 /\ text[1] \in {43, 45} THEN Tail(text) ELSE text
    IN  Len(digits) > 0 /\ \A i \in 1..Len(digits) : digits[i] \in 48..57

\* the number a sequence of digits stands for, in six limbs
RECURSIVE DecimalMagnitude(_)
DecimalMagnitude(digits) ==
    IF Len(digits) = 0 THEN <<0, 0, 0, 0, 0, 0>>
    ELSE BigMulAdd(DecimalMagnitude(SubSeq(digits, 1, Len(digits) - 1)), 10,
                   digits[Len(digits)] - 48).limbs

\* the magnitude of a decimal text
TextMagnitude(text) ==
    DecimalMagnitude(IF text[1] \in {43, 45} THEN Tail(text) ELSE text)

\* x div 10_000_000
BigDivTenMillion(x) == BigDivMod(BigDivMod(BigDivMod(x, 10000).quot, 100).quot, 10).quot

\* the text " (<d>d <h>h <min>min <s>s)" of a number of seconds: the seconds of
\* the last day are below 86400 and are split as a small number
IntervalAnnotation(q) ==
    LET hours == BigDivMod(q, 3600)
        days == BigDivMod(hours.quot, 24)
        of_day == days.rem * 3600 + hours.rem
        d == fmt_i64(<<FALSE, SubSeq(days.quot, 1, 4)>>)
        h == fmt_i64(I64Of(of_day \div 3600))
        m == fmt_i64(I64Of((of_day % 3600) \div 60))
        s == fmt_i64(I64Of(of_day % 60))
    IN  <<32, 40>> \o d \o <<100, 32>> \o h \o <<104, 32>> \o m
            \o <<109, 105, 110, 32>> \o s \o <<115, 41>>

IntervalPrinted == DecSucceeded("output_negative_interval_value")

\* C22: the text of i64::MIN is printed with the annotation (never); the
\* text of every other negative value -n within 64 bits is printed with
\* <d>d <h>h <min>min <s>s where d*86400 + h*3600 + min*60 + s is
\* n div 10_000_000, 0 <= h < 24, 0 <= min < 60 and 0 <= s < 60; a text that
\* is not a number is printed as output_string_value_as_string prints it.
C22_NegativeInterval ==
    IntervalPrinted =>
        LET key == dec_input[1]
            value == dec_input[2]
            line == Unwrap(dec_result)
        IN  IF ~IsDecimalText(value)
            THEN line = output_string_value_as_string(key, value)
            ELSE IF value[1] = 45 /\ TextMagnitude(value) = I64MinMagnitude \o <<0, 0>>
            THEN line = key \o <<58, 32>> \o value \o <<32, 40, 110, 101, 118, 101, 114, 41>>
            ELSE IF /\ value[1] = 45
                    /\ ~BigIsZero(TextMagnitude(value))
                    /\ BigGreater(I64MinMagnitude \o <<0, 0>>, TextMagnitude(value))
            THEN line = key \o <<58, 32>> \o value
                            \o IntervalAnnotation(BigDivTenMillion(TextMagnitude(value)))
            ELSE TRUE

\* -998000000000, 99800 seconds, is printed with (1d 3h 43min 20s)
C22_Witness ==
    /\ IntervalPrinted
    /\ dec_input[2] = <<45, 57, 57, 56, 48, 48, 48, 48, 48, 48, 48, 48, 48>>
    /\ Unwrap(dec_result) = IntervalKey \o <<58, 32>> \o dec_input[2]
           \o <<32, 40, 49, 100, 32, 51, 104, 32, 52, 51, 109, 105, 110, 32, 50, 48, 115, 41>>

\* the text of i64::MIN is printed with (never)
C22_NeverWitness ==
    /\ IntervalPrinted
    /\ dec_input[2] = <<45, 57, 50, 50, 51, 51, 55, 50, 48, 51, 54, 56, 53, 52, 55, 55, 53,
                        56, 48, 56>>
    /\ Unwrap(dec_result) = IntervalKey \o <<58, 32>> \o dec_input[2]
           \o <<32, 40, 110, 101, 118, 101, 114, 41>>

(***************************************************************************)
(* src/src/values.rs: utc_ticks_relative_to_1601, in two steps: the two    *)
(* arguments of the durations, then the durations, their sum and the time. *)
(***************************************************************************)
\* the tick counts are up to this far from 0, 2^16, 2^32, 2^48 and i64::MAX
MaxTickOffset == 19

TickMagnitudes ==
    UNION {{<<a, 0, 0, 0>>, <<a, 1, 0, 0>>, <<a, 0, 1, 0>>, <<a, 0, 0, 1>>,
            <<65535 - a, 65535, 65535, 32767>>} : a \in 0..MaxTickOffset}

\* tick counts of both signs, and i64::MIN
TickInputs ==
    {MkI64(negative, magnitude) : negative \in BOOLEAN, magnitude \in TickMagnitudes}
    \cup {<<TRUE, I64MinMagnitude>>}

TicksInit == DecCall("utc_ticks_relative_to_1601", TickInputs)

\* ticks / 10 and (ticks % 10) * 100
utc_ticks_split ==
    /\ dec_decoder = "utc_ticks_relative_to_1601"
    /\ dec_pc = "call"
    /\ dec_result' = <<i64_div(dec_input, 10), i64_rem(dec_input, 10) * 100, "split">>
    /\ dec_pc' = "split"
    /\ UNCHANGED <<dec_decoder, dec_input>>
    /\ UNCHANGED non_dec_vars

\* the two durations, their sum and the time
utc_ticks_return ==
    /\ dec_decoder = "utc_ticks_relative_to_1601"
    /\ dec_pc = "split"
    /\ dec_result' = utc_ticks_sum(TimeDelta_microseconds(dec_result[1]),
                                   TimeDelta_nanoseconds(dec_result[2]))
    /\ dec_pc' = IF IsAbort(dec_result') THEN "aborted" ELSE "returned"
    /\ UNCHANGED <<dec_decoder, dec_input>>
    /\ UNCHANGED non_dec_vars

TicksNext ==
    \/ utc_ticks_split
    \/ utc_ticks_return

SpecTicks == TicksInit /\ [][TicksNext]_vars

(***************************************************************************)
(* The time of utc_ticks_relative_to_1601 against the tick count.          *)
(***************************************************************************)
\* a magnitude in six limbs
Wide(x) == x \o [i \in 1..(6 - Len(x)) |-> 0]

\* x * 100 + a and x * 1_000_000_000 + a in six limbs
TimesHundred(x, a) == BigMulAdd(Wide(x), 100, a).limbs
TimesBillion(x, a) ==
    BigMulAdd(BigMulAdd(BigMulAdd(Wide(x), 1000, 0).limbs, 1000, 0).limbs, 1000, a).limbs

TicksOngoing == dec_decoder = "utc_ticks_relative_to_1601"

\* C27: utc_ticks_relative_to_1601 is exact and total over all 64-bit tick
\* counts: ticks / 10 and (ticks % 10) * 100 are within 64 bits and have the
\* sign of ticks or are zero, ten times the one plus a hundredth of the other
\* is ticks, and the time returned is secs seconds and nanos nanoseconds
\* after 1601 with secs * 1_000_000_000 + nanos = ticks * 100, for negative
\* ticks too; the function never panics.
C27_TicksExact ==
    TicksOngoing =>
        /\ dec_pc # "aborted"
        /\ dec_pc = "split" =>
            LET microseconds == dec_result[1]
                nanoseconds == dec_result[2]
                remainder == IF nanoseconds < 0 THEN -nanoseconds ELSE nanoseconds
            IN  /\ BigGreater(I64MinMagnitude, microseconds[2])
                /\ remainder \in {0, 100, 200, 300, 400, 500, 600, 700, 800, 900}
                /\ microseconds[1] => dec_input[1]
                /\ nanoseconds < 0 => dec_input[1]
                /\ dec_input[1] => nanoseconds <= 0 /\ (microseconds[1] \/ BigIsZero(microseconds[2]))
                /\ BigMulAdd(Wide(microseconds[2]), 10, remainder \div 100).limbs
                       = Wide(dec_input[2])
        /\ dec_pc = "returned" =>
            LET secs == Unwrap(dec_result)[1]
                nanos == Unwrap(dec_result)[2]
            IN  /\ nanos \in 0..999999999
                /\ secs[1] = (dec_input[1] /\ ~BigIsZero(dec_input[2]))
                /\ IF dec_input[1]
                   THEN TimesBillion(secs[2], 0) = TimesHundred(dec_input[2], nanos)
                   ELSE TimesBillion(secs[2], nanos) = TimesHundred(dec_input[2], 0)

\* -19 ticks are 1900 nanoseconds before 1601: second -1 and 999998100
\* nanoseconds
C27_Witness ==
    /\ TicksOngoing
    /\ dec_pc = "returned"
    /\ dec_input = <<TRUE, <<19, 0, 0, 0>>>>
    /\ Unwrap(dec_result) = <<<<TRUE, <<1, 0, 0, 0>>>>, 999998100>>

\* i64::MIN is converted as well
C27_MinWitness ==
    /\ TicksOngoing
    /\ dec_pc = "returned"
    /\ dec_input = <<TRUE, I64MinMagnitude>>

(***************************************************************************)
(* src/src/values/structs/dfsr.rs: dfsr_schedule_to_string, and the arm of *)
(* output_special_binary_value that prints it.  A String is the sequence   *)
(* of its characters, a character outside ASCII is named by its code       *)
(* point.                                                                  *)
(***************************************************************************)
\* the length of a schedule: 7 days of 48 bytes
ScheduleLen == 336

\* the lengths of the values are up to this far from ScheduleLen
MaxSlack == 1

\* {:2} of a number below 100
fmt_2(n) ==
    IF n < 10 THEN <<" ", DigitChars[n + 1]>>
    ELSE <<DigitChars[(n \div 10) + 1], DigitChars[(n % 10) + 1]>>

\* the first line of the header from the hour n on
RECURSIVE dfsr_hours(_)
dfsr_hours(n) ==
    IF n >= 24 THEN <<>>
    ELSE <<"U+250C">> \o fmt_2(n) \o <<"U+2510">> \o dfsr_hours(n + 1)

\* the second line of the header from the hour n on
RECURSIVE dfsr_bars(_)
dfsr_bars(n) ==
    IF n >= 24 THEN <<>>
    ELSE <<"U+2582", "U+2584", "U+2586", "U+2588">> \o dfsr_bars(n + 1)

\* a week that begins on Monday
dfsr_weekday_monday_first(weekday_index) ==
    IF weekday_index = 0 THEN <<"M", "o">>
    ELSE IF weekday_index = 1 THEN <<"T", "u">>
    ELSE IF weekday_index = 2 THEN <<"W", "e">>
    ELSE IF weekday_index = 3 THEN <<"T", "h">>
    ELSE IF weekday_index = 4 THEN <<"F", "r">>
    ELSE IF weekday_index = 5 THEN <<"S", "a">>
    ELSE IF weekday_index = 6 THEN <<"S", "u">>
    ELSE <<" ", " ">>

\* the match on weekday_index
dfsr_weekday(weekday_index) ==
    IF weekday_index = 0 THEN <<"S", "u">>
    ELSE IF weekday_index = 1 THEN <<"M", "o">>
    ELSE IF weekday_index = 2 THEN <<"T", "u">>
    ELSE IF weekday_index = 3 THEN <<"W", "e">>
    ELSE IF weekday_index = 4 THEN <<"T", "h">>
    ELSE IF weekday_index = 5 THEN <<"F", "r">>
    ELSE IF weekday_index = 6 THEN <<"S", "a">>
    ELSE <<" ", " ">>

\* the bytes of a day, each as {:02X}
dfsr_day_bytes(weekday_slice) ==
    [j \in 1..(2 * Len(weekday_slice)) |-> fmt_02X(weekday_slice[(j + 1) \div 2])[2 - (j % 2)]]

\* the loop over schedule.chunks(48).enumerate() from a chunk on
RECURSIVE dfsr_days(_, _)
dfsr_days(schedule, weekday_index) ==
    IF weekday_index * 48 >= Len(schedule) THEN <<>>
    ELSE LET weekday_slice ==
                 IF weekday_index * 48 + 48 <= Len(schedule)
                 THEN Slice(schedule, weekday_index * 48, weekday_index * 48 + 48)
                 ELSE SliceFrom(schedule, weekday_index * 48)
         IN  <<"\n">> \o dfsr_weekday(weekday_index) \o <<"|">>
                 \o dfsr_day_bytes(weekday_slice)
                 \o dfsr_days(schedule, weekday_index + 1)

\* dfsr_schedule_to_string
dfsr_schedule_to_string(schedule) ==
    IF Len(schedule) # ScheduleLen THEN None
    ELSE Some(<<" ", " ", "|">> \o dfsr_hours(0) \o <<"\n", " ", " ", "|">> \o dfsr_bars(0)
                  \o dfsr_days(schedule, 0))

\* str::replace of "\r\n" and then of "\r" by "\n": the "\n" behind a "\r"
\* goes and every "\r" becomes "\n"
replace_line_breaks(string) ==
    LET kept == SelectSeq([i \in 1..Len(string) |-> i],
                          LAMBDA i : ~(string[i] = "\n" /\ i > 1 /\ string[i - 1] = "\r"))
    IN  [k \in 1..Len(kept) |-> IF string[kept[k]] = "\r" THEN "\n" ELSE string[kept[k]]]

\* the lines output_stringification_result! prints for a String
output_string_lines(key, string_val) ==
    LET lines == split(replace_line_breaks(string_val), "\n")
    IN  <<<<key, ":::">>>> \o [i \in 1..Len(lines) |-> <<" ">> \o lines[i]]

\* the arm of output_special_binary_value for "msDFSR-Schedule": the Option
\* of dfsr_schedule_to_string and the lines printed
output_dfsr_schedule(key, value) ==
    IF IsSome(dfsr_schedule_to_string(value))
    THEN <<dfsr_schedule_to_string(value),
           output_string_lines(key, Unwrap(dfsr_schedule_to_string(value))), "printed">>
    ELSE <<dfsr_schedule_to_string(value), output_binary_value_as_hexdump(key, value),
           "printed">>

\* values of the lengths around ScheduleLen, of no byte and of one day, all
\* bytes alike but one
ScheduleInputs ==
    {[i \in 1..n |-> IF i = p THEN v ELSE fill] :
        n \in {0, 48} \cup ((ScheduleLen - MaxSlack)..(ScheduleLen + MaxSlack)),
        fill \in {0, 255},
        p \in {1, 48, 49, 97, 288, ScheduleLen},
        v \in {1, 16, 171}}

ScheduleInit == DecCall("msDFSR-Schedule", ScheduleInputs)

DfsrScheduleOutput ==
    DecReturn("msDFSR-Schedule", output_dfsr_schedule("msDFSR-Schedule", dec_input))

ScheduleNext == DfsrScheduleOutput

SpecSchedule == ScheduleInit /\ [][ScheduleNext]_vars

(***************************************************************************)
(* The grid of a schedule.                                                 *)
(***************************************************************************)
WeekdayNames ==
    <<<<"S", "u">>, <<"M", "o">>, <<"T", "u">>, <<"W", "e">>, <<"T", "h">>, <<"F", "r">>,
      <<"S", "a">>>>

\* a line is the row of a day: its name in two letters, a bar, and the 48
\* bytes of the day as two upper-case hexadecimal digits each
IsDayRow(line, name, day_bytes) ==
    /\ Len(line) = 3 + 2 * 48
    /\ SubSeq(line, 1, 3) = name \o <<"|">>
    /\ \A j \in 1..48 :
           /\ line[2 + 2 * j] = UpperHexChars[(day_bytes[j] \div 16) + 1]
           /\ line[3 + 2 * j] = UpperHexChars[(day_bytes[j] % 16) + 1]

\* a line is the header of 24 columns of four characters, the hour between
\* two corners
IsHourHeader(line) ==
    /\ Len(line) = 3 + 4 * 24
    /\ SubSeq(line, 1, 3) = <<" ", " ", "|">>
    /\ \A n \in 0..23 :
           /\ line[4 + 4 * n] = "U+250C"
           /\ line[5 + 4 * n] = (IF n < 10 THEN " " ELSE DigitChars[(n \div 10) + 1])
           /\ line[6 + 4 * n] = DigitChars[(n % 10) + 1]
           /\ line[7 + 4 * n] = "U+2510"

SchedulePrinted == dec_decoder = "msDFSR-Schedule" /\ dec_pc = "returned"

\* C23: dfsr_schedule_to_string returns a grid exactly when the value has 336
\* bytes: a header of 24 columns, a line of bars, and exactly 7 rows, for Su,
\* Mo, Tu, We, Th, Fr, Sa in this order, each with the 48 bytes of its day
\* as two hexadecimal digits; for every other length it returns absent, and
\* the value of msDFSR-Schedule is printed as a hex dump.
C23_ScheduleGrid ==
    SchedulePrinted =>
        LET string_val == dec_result[1]
            printed == dec_result[2]
        IN  IF Len(dec_input) = 336
            THEN /\ IsSome(string_val)
                 /\ LET grid == split(Unwrap(string_val), "\n")
                    IN  /\ Len(grid) = 2 + 7
                        /\ IsHourHeader(grid[1])
                        /\ Len(grid[2]) = 3 + 4 * 24
                        /\ \A k \in 1..7 :
                               IsDayRow(grid[2 + k], WeekdayNames[k],
                                        SubSeq(dec_input, 48 * k - 47, 48 * k))
                        /\ printed = <<<<"msDFSR-Schedule", ":::">>>>
                                         \o [i \in 1..9 |-> <<" ">> \o grid[i]]
            ELSE /\ string_val = None
                 /\ IsHexdumpOf(printed, "msDFSR-Schedule", dec_input)

\* a schedule of 336 bytes whose 49th byte, the first of Monday, is AB
C23_Witness ==
    /\ SchedulePrinted
    /\ Len(dec_input) = 336
    /\ dec_input[49] = 171
    /\ Len(dec_result[2]) = 10
    /\ SubSeq(dec_result[2][5], 1, 6) = <<" ", "M", "o", "|", "A", "B">>

\* a value of 337 bytes is printed as a hex dump of 22 lines
C23_HexdumpWitness ==
    /\ SchedulePrinted
    /\ Len(dec_input) = 337
    /\ dec_result[1] = None
    /\ Len(dec_result[2]) = 1 + 22

(***************************************************************************)
(* src/src/values/structs/security.rs: Ace::try_from_bytes on its own.     *)
(***************************************************************************)
\* the ACEs of the ACLs, and more of the object types, of the types without
\* an arm, and of GUIDs that are announced and missing
AceDecodeInputs ==
    AceInputs
    \cup {AceBytes(t, 0, <<16, 0, 0, 0>> \o Le32(o) \o ObjectGuids(o) \o SidWorld \o a) :
            t \in {6, 7, 15}, o \in {0, 1, 2, 3, 7}, a \in AceApplicationData}
    \cup {AceBytes(t, f, p) :
            t \in {3, 4, 8, 14, 16, 20, 255}, f \in {0, 18},
            p \in {<<>>, <<9, 9>>, <<16, 0, 0, 0>> \o SidWorld}}
    \cup {AceBytes(5, 0, <<16, 0, 0, 0>> \o Le32(2) \o SubSeq(GuidB, 1, 8)),
          AceBytes(5, 0, <<16, 0, 0, 0>> \o Le32(3) \o GuidA \o SidAdmins),
          AceBytes(5, 0, <<16, 0, 0, 0>> \o Le32(3) \o GuidA \o GuidB),
          AceBytes(11, 0, <<16, 0, 0, 0, 1, 0>>),
          AceBytes(17, 0, <<1, 0>>),
          <<5, 0, 3>>, <<>>}

AceInit == DecCall("Ace", AceDecodeInputs)

AceDecode == DecReturn("Ace", Ace_try_from_bytes(dec_input))

AceNext == AceDecode

SpecAce == AceInit /\ [][AceNext]_vars

(***************************************************************************)
(* Ace::try_from_bytes against the layouts of the ACE types.               *)
(***************************************************************************)
\* the variants of AceData of the type bytes with a mask and a SID, and of
\* those with object flags
MaskSidVariants ==
    0 :> "AccessAllowed" @@ 1 :> "AccessDenied" @@ 2 :> "SystemAudit"
        @@ 9 :> "AccessAllowedCallback" @@ 10 :> "AccessDeniedCallback"
        @@ 13 :> "SystemAuditCallback" @@ 19 :> "SystemScopedPolicyId"
        @@ 17 :> "SystemMandatoryLabel"

ObjectVariants ==
    5 :> "AccessAllowedObject" @@ 6 :> "AccessDeniedObject" @@ 7 :> "SystemAuditObject"
        @@ 11 :> "AccessAllowedCallbackObject" @@ 12 :> "AccessDeniedCallbackObject"
        @@ 15 :> "SystemAuditCallbackObject"

\* the bits of the 32-bit little-endian field at a 0-based offset
FieldBits(bytes, offset) ==
    {k \in 0..31 : (bytes[offset + 1 + (k \div 8)] \div (2 ^ (k % 8))) % 2 = 1}

\* the length of the SID that begins at a 0-based offset, -1 if none does:
\* 8 bytes, version 1, and 4 bytes for each of the count at its second byte
SidLengthAt(bytes, offset) ==
    IF Len(bytes) < offset + 8 THEN -1
    ELSE IF bytes[offset + 1] # 1 THEN -1
    ELSE IF Len(bytes) < offset + 8 + 4 * bytes[offset + 2] THEN -1
    ELSE 8 + 4 * bytes[offset + 2]

\* sid is the SID of the bytes at a 0-based offset
IsSidAt(sid, bytes, offset) ==
    /\ \A k \in 0..5 : ByteOf(sid.authority, k) = bytes[offset + 8 - k]
    /\ Len(sid.subauthorities) = bytes[offset + 2]
    /\ \A i \in 1..Len(sid.subauthorities) : \A k \in 0..3 :
           ByteOf(sid.subauthorities[i], k) = bytes[offset + 8 + 4 * (i - 1) + k + 1]

\* the bytes from a 0-based offset to the end
BytesFrom(bytes, offset) == SubSeq(bytes, offset + 1, Len(bytes))

\* the offset of the SID of an ACE with object flags: behind the GUIDs that
\* bit 0 and bit 1 of the flags at offset 8 announce
ObjectSidOffset(bytes) ==
    12 + (IF 0 \in FieldBits(bytes, 8) THEN 16 ELSE 0)
       + (IF 1 \in FieldBits(bytes, 8) THEN 16 ELSE 0)

AceReturned == dec_decoder = "Ace" /\ dec_pc # "call"

\* C24: Ace::try_from_bytes takes only a slice whose 16-bit size at bytes
\* 2..4 is its length.  The types 0x00, 0x01, 0x02, 0x09, 0x0A, 0x0D, 0x13
\* are a mask and a SID, the type 0x11 a mandatory mask and a SID; the types
\* 0x05, 0x06, 0x07, 0x0B, 0x0C, 0x0F are a mask, 32-bit object flags, an
\* object-type GUID iff bit 0 of the object flags is set, then an
\* inherited-object-type GUID iff bit 1 is set, then a SID; the bytes behind
\* the SID are the application data; and every other type byte but 0x12 is
\* Other with its kind and everything behind the 4-byte header as
\* application data.
C24_AceLayouts ==
    AceReturned =>
        LET b == dec_input
            ace == Unwrap(dec_result)
        IN  /\ dec_pc # "aborted" \/ (Len(b) >= 4 /\ b[1] = 18)
            /\ IsSome(dec_result) => Len(b) >= 4 /\ FieldLe16(b, 2) = Len(b)
            /\ (IsSome(dec_result) /\ b[1] \in DOMAIN MaskSidVariants) =>
                /\ Len(b) >= 8
                /\ SidLengthAt(b, 8) >= 0
                /\ ace.flags = {k \in 0..7 : (b[2] \div (2 ^ k)) % 2 = 1}
                /\ ace.data.kind = MaskSidVariants[b[1]]
                /\ ace.data.mask = Some(FieldBits(b, 4))
                /\ IsSidAt(Unwrap(ace.data.sid), b, 8)
                /\ ace.data.object_flags = None
                /\ ace.data.object_type = None
                /\ ace.data.inherited_object_type = None
                /\ ace.application_data = BytesFrom(b, 8 + SidLengthAt(b, 8))
            /\ (IsSome(dec_result) /\ b[1] \in DOMAIN ObjectVariants) =>
                /\ Len(b) >= 12
                /\ Len(b) >= ObjectSidOffset(b)
                /\ SidLengthAt(b, ObjectSidOffset(b)) >= 0
                /\ ace.data.kind = ObjectVariants[b[1]]
                /\ ace.data.mask = Some(FieldBits(b, 4))
                /\ ace.data.object_flags = Some(FieldBits(b, 8))
                /\ IsSome(ace.data.object_type) <=> 0 \in FieldBits(b, 8)
                /\ IsSome(ace.data.inherited_object_type) <=> 1 \in FieldBits(b, 8)
                /\ 0 \in FieldBits(b, 8) =>
                       Unwrap(ace.data.object_type) = SubSeq(b, 13, 28)
                /\ 1 \in FieldBits(b, 8) =>
                       Unwrap(ace.data.inherited_object_type)
                           = SubSeq(b, ObjectSidOffset(b) - 15, ObjectSidOffset(b))
                /\ IsSidAt(Unwrap(ace.data.sid), b, ObjectSidOffset(b))
                /\ ace.application_data
                       = BytesFrom(b, ObjectSidOffset(b) + SidLengthAt(b, ObjectSidOffset(b)))
            /\ (Len(b) >= 4 /\ FieldLe16(b, 2) = Len(b)
                    /\ b[1] \notin (DOMAIN MaskSidVariants) \cup (DOMAIN ObjectVariants) \cup {18}) =>
                /\ IsSome(dec_result)
                /\ ace.data.kind = "Other"
                /\ ace.data.other_kind = Some(b[1])
                /\ ace.data.mask = None
                /\ ace.data.sid = None
                /\ ace.application_data = BytesFrom(b, 4)
            \* the layouts that fit are decoded
            /\ (Len(b) >= 8 /\ FieldLe16(b, 2) = Len(b) /\ b[1] \in DOMAIN MaskSidVariants
                    /\ SidLengthAt(b, 8) >= 0) => IsSome(dec_result)
            /\ (Len(b) >= 12 /\ FieldLe16(b, 2) = Len(b) /\ b[1] \in DOMAIN ObjectVariants
                    /\ Len(b) >= ObjectSidOffset(b)
                    /\ SidLengthAt(b, ObjectSidOffset(b)) >= 0) => IsSome(dec_result)

\* an ACE of type 0x0C with both GUIDs, the SID S-1-5-32-544 and four bytes
\* of application data has been decoded
C24_Witness ==
    /\ AceReturned
    /\ dec_input = AceBytes(12, 2, <<16, 0, 0, 0>> \o Le32(3) \o GuidA \o GuidB \o SidAdmins
                                       \o <<1, 2, 3, 4>>)
    /\ IsSome(dec_result)
    /\ Unwrap(dec_result).data.object_type = Some(GuidA)
    /\ Unwrap(dec_result).data.inherited_object_type = Some(GuidB)
    /\ Unwrap(dec_result).application_data = <<1, 2, 3, 4>>

\* an ACE of type 0x03 is Other with its payload as application data
C24_OtherWitness ==
    /\ AceReturned
    /\ dec_input = <<3, 18, 6, 0, 9, 9>>
    /\ IsSome(dec_result)
    /\ Unwrap(dec_result).data.other_kind = Some(3)
    /\ Unwrap(dec_result).application_data = <<9, 9>>

(***************************************************************************)
(* src/src/values/structs/dns/property.rs: DnsAddr and DnsProperty.  A u32 *)
(* that is a bit field is the set of the indices of its bits.              *)
(***************************************************************************)
\* most addresses of an array
MaxAddrs == 2

\* extract_bits! on a bit field: the number of bit_count bits from
\* lowest_bit_index on
RECURSIVE extract_bits(_, _, _)
extract_bits(value, lowest_bit_index, bit_count) ==
    IF bit_count = 0 THEN 0
    ELSE (IF lowest_bit_index \in value THEN 1 ELSE 0)
             + 2 * extract_bits(value, lowest_bit_index + 1, bit_count - 1)

\* the match on address_family
DnsAddr_ip(address_family, sockaddr_length, address_bytes) ==
    IF address_family = 2
    THEN IF sockaddr_length < 8 THEN None
         ELSE Some(<<"V4", Slice(address_bytes, 0, 4), address_family>>)
    ELSE IF address_family = 23
    THEN IF sockaddr_length < 24 THEN None
         ELSE Some(<<"V6", Slice(address_bytes, 4, 20), address_family>>)
    ELSE Some(<<"Other", Slice(address_bytes, 0, sockaddr_length - 4), address_family>>)

\* DnsAddr::try_from_bytes
DnsAddr_try_from_bytes(bytes) ==
    IF Len(bytes) < 44 THEN None
    ELSE LET address_family == u16_from_le_bytes(Slice(bytes, 0, 2))
             port == At(bytes, 2) * 256 + At(bytes, 3)
             address_bytes == Slice(bytes, 4, 32)
             sockaddr_length == usize_from_le_bytes(Slice(bytes, 32, 36))
             subnet_length == u32_from_le_bytes(Slice(bytes, 36, 40))
             flags == bits_from_le_bytes(Slice(bytes, 40, 44))
         IN  IF sockaddr_length < 4 \/ sockaddr_length > 32 THEN None
             ELSE Try(DnsAddr_ip(address_family, sockaddr_length, address_bytes),
                      LAMBDA ip :
                          Some([ip |-> ip,
                                port |-> port,
                                subnet_length |-> subnet_length,
                                dns_over_tcp_available |-> ~(31 \in flags),
                                rtt_10ms |-> extract_bits(flags, 12, 12),
                                validation_status |-> extract_bits(flags, 0, 12)]))

\* the loop over bytes.chunks(4).skip(1) from an offset on
RECURSIVE parse_ip4_chunks(_, _)
parse_ip4_chunks(bytes, offset) ==
    IF offset >= Len(bytes) THEN <<>>
    ELSE <<Slice(bytes, offset, offset + 4)>> \o parse_ip4_chunks(bytes, offset + 4)

\* parse_ip4_array
parse_ip4_array(bytes) ==
    IF Len(bytes) < 4 \/ Len(bytes) % 4 # 0 THEN None
    ELSE IF (Len(bytes) \div 4) - 1 < usize_from_le_bytes(Slice(bytes, 0, 4)) THEN None
    ELSE Some(parse_ip4_chunks(bytes, 4))

\* the loop over bytes[32..].chunks(64) from an offset on
RECURSIVE parse_dns_addr_chunks(_, _, _)
parse_dns_addr_chunks(bytes, offset, ret) ==
    IF offset >= Len(bytes) THEN Some(ret)
    ELSE Try(DnsAddr_try_from_bytes(Slice(bytes, offset, offset + 64)),
             LAMBDA addr : parse_dns_addr_chunks(bytes, offset + 64, Append(ret, addr)))

\* parse_dns_addr_array
parse_dns_addr_array(bytes) ==
    IF Len(bytes) < 32 THEN None
    ELSE IF usize_from_le_bytes(Slice(bytes, 0, 4)) # usize_from_le_bytes(Slice(bytes, 4, 8))
    THEN None
    ELSE IF (Len(bytes) - 32) % 64 # 0 THEN None
    ELSE IF (Len(bytes) - 32) \div 64 < usize_from_le_bytes(Slice(bytes, 4, 8)) THEN None
    ELSE parse_dns_addr_chunks(bytes, 32, <<>>)

\* the variants of DnsPropertyData of the ids whose data is a u32, with the
\* value of an empty data where there is one
DnsU32Variants ==
    1 :> <<"ZoneType", <<<<1, 0>>>>>> @@ 16 :> <<"NoRefreshInterval", <<<<168, 0>>>>>>
        @@ 32 :> <<"RefreshInterval", <<<<168, 0>>>>>> @@ 64 :> <<"AgingState", <<<<0, 0>>>>>>
        @@ 18 :> <<"AgingEnabledTime", <<<<0, 0>>>>>> @@ 131 :> <<"DcPromoConvert", <<>>>>
        @@ 256 :> <<"DbFlags", <<>>>>

\* the variants of the ids whose data is an array of IPv4 addresses, and of
\* those whose data is an array of DnsAddr
DnsIp4ArrayVariants ==
    17 :> "ScavengingServers" @@ 129 :> "MasterServers" @@ 130 :> "AutoNsServers"
DnsAddrArrayVariants ==
    144 :> "ScavengingServersDa" @@ 145 :> "MasterServersDa" @@ 146 :> "AutoNsServersDa"

\* a DnsPropertyData
DnsData(kind, value) == Some([kind |-> kind, value |-> value])

\* the match on id
DnsProperty_data(id, data_bytes, is_default) ==
    IF id \in DOMAIN DnsU32Variants
    THEN IF is_default /\ Len(DnsU32Variants[id][2]) = 1
         THEN DnsData(DnsU32Variants[id][1], DnsU32Variants[id][2][1])
         ELSE IF Len(data_bytes) # 4 THEN None
         ELSE DnsData(DnsU32Variants[id][1], u32_from_le_bytes(data_bytes))
    ELSE IF id = 2
    THEN IF Len(data_bytes) = 1 THEN DnsData("AllowUpdate", <<data_bytes[1], 0>>)
         ELSE IF Len(data_bytes) # 4 THEN None
         ELSE DnsData("AllowUpdate", u32_from_le_bytes(data_bytes))
    ELSE IF id = 8
    THEN IF is_default
         THEN Try(utc_seconds_relative_to_1601(<<FALSE, <<0, 0, 0, 0>>>>),
                  LAMBDA time : DnsData("SecureTime", time))
         ELSE IF Len(data_bytes) # 8 THEN None
         ELSE Try(utc_seconds_relative_to_1601(i64_from_le_bytes(data_bytes)),
                  LAMBDA time : DnsData("SecureTime", time))
    ELSE IF id \in DOMAIN DnsIp4ArrayVariants
    THEN IF is_default THEN DnsData(DnsIp4ArrayVariants[id], <<>>)
         ELSE Try(parse_ip4_array(data_bytes),
                  LAMBDA servers : DnsData(DnsIp4ArrayVariants[id], servers))
    ELSE IF id = 128
    THEN IF Len(data_bytes) % 2 # 0 THEN None
         ELSE Try(nul_terminated_utf16le_string(data_bytes),
                  LAMBDA hostname : DnsData("DeletedFromHostname", hostname))
    ELSE IF id \in DOMAIN DnsAddrArrayVariants
    THEN IF is_default THEN DnsData(DnsAddrArrayVariants[id], <<>>)
         ELSE Try(parse_dns_addr_array(data_bytes),
                  LAMBDA servers : DnsData(DnsAddrArrayVariants[id], servers))
    ELSE DnsData("Other", <<id, data_bytes>>)

\* DnsProperty::try_from_bytes
DnsProperty_try_from_bytes(bytes) ==
    IF Len(bytes) < 21 THEN None
    ELSE LET data_length == usize_from_le_bytes(Slice(bytes, 0, 4))
             name_length == u32_from_le_bytes(Slice(bytes, 4, 8))
             flag == u32_from_le_bytes(Slice(bytes, 8, 12))
             version == usize_from_le_bytes(Slice(bytes, 12, 16))
             id == usize_from_le_bytes(Slice(bytes, 16, 20))
         IN  IF version # 1 THEN None
             ELSE IF Len(bytes) < 21 + data_length THEN None
             ELSE Try(DnsProperty_data(id, Slice(bytes, 20, 20 + data_length),
                                       data_length = 0),
                      LAMBDA data :
                          Some([name_length |-> name_length,
                                flag |-> flag,
                                version |-> version,
                                is_default |-> data_length = 0,
                                data |-> data]))

(***************************************************************************)
(* The DNS properties of the model.                                        *)
(***************************************************************************)
\* a 64-byte DNS_ADDR: family, port (big-endian), 28 bytes of address,
\* sockaddr length, subnet length, flags, and 20 bytes that are not read
DnsAddrBytes(family, port, address, sockaddr_length, flags) ==
    Le16(family) \o <<port \div 256, port % 256>> \o address \o Zeros(28 - Len(address))
        \o Le32(sockaddr_length) \o Le32(0) \o flags \o Zeros(20)

\* 192.168.12.34 and 2001:db8::34 as the address bytes of a DNS_ADDR
DnsV4Address == <<192, 168, 12, 34>>
DnsV6Address == <<0, 0, 0, 0, 32, 1, 13, 184, 0, 0, 0, 0, 0, 0, 0, 0, 0, 0, 0, 52>>

\* the entries that are varied together in one array: IPv4 and IPv6 with
\* flags zero, IPv4 with bit 31, a round-trip time and a status, and an
\* address of another family
FewDnsAddrs ==
    {DnsAddrBytes(2, 53, DnsV4Address, 16, <<0, 0, 0, 0>>),
     DnsAddrBytes(23, 53, DnsV6Address, 28, <<0, 0, 0, 0>>),
     DnsAddrBytes(2, 53, DnsV4Address, 16, <<3, 32, 0, 128>>),
     DnsAddrBytes(5, 0, <<9, 9, 9, 9>>, 8, <<255, 0, 0, 0>>)}

\* entries the decoder turns away, and entries at the limits it takes
OddDnsAddrs ==
    {DnsAddrBytes(2, 53, DnsV4Address, 3, <<0, 0, 0, 0>>),
     DnsAddrBytes(2, 53, DnsV4Address, 33, <<0, 0, 0, 0>>),
     DnsAddrBytes(2, 53, DnsV4Address, 4, <<0, 0, 0, 0>>),
     DnsAddrBytes(2, 53, DnsV4Address, 8, <<0, 0, 0, 0>>),
     DnsAddrBytes(23, 53, DnsV6Address, 16, <<0, 0, 0, 0>>),
     DnsAddrBytes(23, 53, DnsV6Address, 24, <<0, 0, 0, 0>>),
     DnsAddrBytes(5, 0, <<9, 9, 9, 9>>, 32, <<0, 240, 255, 127>>),
     DnsAddrBytes(5, 0, <<>>, 4, <<0, 0, 0, 128>>)}

\* an array of DNS_ADDR: MaxCount, AddrCount, 24 bytes that are not read, the
\* entries
DnsAddrArrayBytes(max_count, addr_count, entries) ==
    Le32(max_count) \o Le32(addr_count) \o Zeros(24) \o Flatten(entries)

\* an array of IPv4 addresses: the count and the addresses
Ip4ArrayBytes(addr_count, addrs) == Le32(addr_count) \o Flatten(addrs)

\* a property: data length, name length, flag, version, id, data, name
DnsPropertyBytes(data_length, version, id, data, name) ==
    Le32(data_length) \o <<23, 0, 0, 53>> \o Le32(0) \o Le32(version) \o Le32(id) \o data
        \o name

\* the property of the test test_master_servers_da: six addresses
TestMasterServersDa ==
    DnsPropertyBytes(416, 1, 145,
        DnsAddrArrayBytes(6, 6,
            <<DnsAddrBytes(2, 53, <<192, 168, 12, 34>>, 16, <<0, 0, 0, 0>>),
              DnsAddrBytes(23, 53, SubSeq(DnsV6Address, 1, 19) \o <<52>>, 28, <<0, 0, 0, 0>>),
              DnsAddrBytes(2, 53, <<192, 168, 12, 89>>, 16, <<0, 0, 0, 0>>),
              DnsAddrBytes(23, 53, SubSeq(DnsV6Address, 1, 19) \o <<137>>, 28, <<0, 0, 0, 0>>),
              DnsAddrBytes(2, 53, <<192, 168, 12, 42>>, 16, <<0, 0, 0, 0>>),
              DnsAddrBytes(23, 53, SubSeq(DnsV6Address, 1, 19) \o <<66>>, 28, <<0, 0, 0, 0>>)>>),
        <<128, 15, 128, 15>>)

\* the data of the arrays of DNS_ADDR: the counts up to one off the entries
DnsAddrArrayData ==
    {DnsAddrArrayBytes(Len(x[1]) + x[2] + x[3], Len(x[1]) + x[2], x[1]) :
        x \in {y \in SeqsUpTo(FewDnsAddrs, MaxAddrs) \X {-1, 0, 1} \X {0, 1} :
                  Len(y[1]) + y[2] >= 0}}
    \cup {DnsAddrArrayBytes(1, 1, <<e>>) : e \in OddDnsAddrs}
    \cup {DnsAddrArrayBytes(1, 1, <<e>>) \o <<0>> : e \in FewDnsAddrs}
    \cup {Zeros(8)}

\* the data of the arrays of IPv4 addresses
Ip4ArrayData ==
    {Ip4ArrayBytes(Len(x[1]) + x[2], x[1]) \o x[3] :
        x \in {y \in SeqsUpTo({<<192, 168, 12, 34>>, <<10, 0, 0, 1>>}, MaxAddrs)
                        \X {-1, 0, 1} \X {<<>>, <<7, 7>>} :
                  Len(y[1]) + y[2] >= 0}}

\* data of the other ids
DnsScalarData ==
    {<<>>, <<1>>, <<2, 0, 0, 0>>, <<65, 0, 0, 0>>, <<65, 0, 66>>, <<0, 216, 0, 0>>,
     <<0, 0, 0, 0, 0, 0, 0, 0>>, <<255, 255, 255, 255, 255, 255, 255, 127>>}

DnsPropertyInputs ==
    {DnsPropertyBytes(Len(d), 1, id, d, <<0>>) :
        id \in DOMAIN DnsAddrArrayVariants, d \in DnsAddrArrayData \cup {<<>>}}
    \cup {DnsPropertyBytes(Len(d), 1, id, d, <<0>>) :
        id \in DOMAIN DnsIp4ArrayVariants, d \in Ip4ArrayData \cup {<<>>}}
    \cup {DnsPropertyBytes(Len(d), 1, id, d, <<0>>) :
        id \in (DOMAIN DnsU32Variants) \cup {2, 8, 128, 99}, d \in DnsScalarData}
    \cup {DnsPropertyBytes(Len(d) + x, v, 145, d, n) :
        d \in {DnsAddrArrayBytes(1, 1, <<e>>) : e \in FewDnsAddrs},
        x \in {-64, 0, 1}, v \in {1, 2}, n \in {<<>>, <<0>>, <<128, 15>>}}
    \cup {TestMasterServersDa, <<>>, Zeros(20)}

DnsPropInit == DecCall("DnsProperty", DnsPropertyInputs)

DnsPropertyDecode == DecReturn("DnsProperty", DnsProperty_try_from_bytes(dec_input))

DnsPropNext == DnsPropertyDecode

SpecDnsProp == DnsPropInit /\ [][DnsPropNext]_vars

(***************************************************************************)
(* DnsProperty::try_from_bytes against the counts and the flags of the     *)
(* arrays.                                                                 *)
(***************************************************************************)
\* the id and the data length of a property
DnsPropertyId(bytes) == FieldLe32(bytes, 16)
DnsDataLength(bytes) == FieldLe32(bytes, 0)

\* an array of addresses with a payload has been decoded
DnsArrayDecoded ==
    /\ DecSucceeded("DnsProperty")
    /\ DnsPropertyId(dec_input) \in {17, 129, 130, 144, 145, 146}
    /\ DnsDataLength(dec_input) > 0

\* the count an array declares: the first field of an array of IPv4
\* addresses, AddrCount of an array of DNS_ADDR
DeclaredAddrCount(bytes) ==
    IF DnsPropertyId(bytes) \in {17, 129, 130} THEN FieldLe32(bytes, 20)
    ELSE FieldLe32(bytes, 24)

\* the addresses the payload has room for
PresentAddrCount(bytes) ==
    IF DnsPropertyId(bytes) \in {17, 129, 130} THEN (DnsDataLength(bytes) \div 4) - 1
    ELSE (DnsDataLength(bytes) - 32) \div 64

\* C25: when DnsProperty::try_from_bytes succeeds for an address array with
\* a non-empty payload (ids 0x11, 0x81, 0x82 and 0x90, 0x91, 0x92), the
\* number of decoded addresses is the count the payload declares.
C25_DeclaredCountDecoded ==
    DnsArrayDecoded =>
        Len(Unwrap(dec_result).data.value) = DeclaredAddrCount(dec_input)

\* an array that declares one IPv4 address and holds two is decoded to two
C25_ExtraAddressDecoded ==
    /\ DnsArrayDecoded
    /\ dec_input = DnsPropertyBytes(12, 1, 129,
                       Ip4ArrayBytes(1, <<<<192, 168, 12, 34>>, <<10, 0, 0, 1>>>>), <<0>>)
    /\ Unwrap(dec_result).data.value = <<<<192, 168, 12, 34>>, <<10, 0, 0, 1>>>>

\* what does hold: the decoded addresses are all that the payload holds, and
\* no fewer than the declared count; the test's six of six are decoded
C25_PresentCountDecoded ==
    DnsArrayDecoded =>
        /\ Len(Unwrap(dec_result).data.value) = PresentAddrCount(dec_input)
        /\ Len(Unwrap(dec_result).data.value) >= DeclaredAddrCount(dec_input)
        /\ dec_input = TestMasterServersDa => Len(Unwrap(dec_result).data.value) = 6

\* the 0-based offset of the k-th DNS_ADDR of a property
DnsAddrOffset(k) == 20 + 32 + 64 * (k - 1)

\* an array of DNS_ADDR with a payload has been decoded
DnsAddrArrayDecoded ==
    DnsArrayDecoded /\ DnsPropertyId(dec_input) \in {144, 145, 146}

\* C26: a 64-byte DNS_ADDR whose flags, its bytes 40..44, are zero decodes to
\* a DnsAddr with dns_over_tcp_available = false, rtt_10ms = 0 and the
\* validation status Success.
C26_ZeroFlagsDecoded ==
    DnsAddrArrayDecoded =>
        \A k \in 1..Len(Unwrap(dec_result).data.value) :
            SubSeq(dec_input, DnsAddrOffset(k) + 41, DnsAddrOffset(k) + 44) = <<0, 0, 0, 0>> =>
                /\ Unwrap(dec_result).data.value[k].dns_over_tcp_available = FALSE
                /\ Unwrap(dec_result).data.value[k].rtt_10ms = 0
                /\ Unwrap(dec_result).data.value[k].validation_status = 0

\* the first address of the test's property, 192.168.12.34 with flags zero,
\* is decoded with dns_over_tcp_available = true
C26_TestVectorOverTcp ==
    /\ DnsAddrArrayDecoded
    /\ dec_input = TestMasterServersDa
    /\ Unwrap(dec_result).data.value[1].ip = <<"V4", <<192, 168, 12, 34>>, 2>>
    /\ Unwrap(dec_result).data.value[1].port = 53
    /\ Unwrap(dec_result).data.value[1].dns_over_tcp_available = TRUE

\* what does hold: dns_over_tcp_available is the complement of bit 31 of the
\* flags, rtt_10ms their bits 12..23 and the validation status their bits
\* 0..11, so that zero flags give true, 0 and Success
C26_FlagsDecoded ==
    DnsAddrArrayDecoded =>
        \A k \in 1..Len(Unwrap(dec_result).data.value) :
            LET addr == Unwrap(dec_result).data.value[k]
                at == DnsAddrOffset(k) + 40
            IN  /\ addr.dns_over_tcp_available = (dec_input[at + 4] < 128)
                /\ addr.rtt_10ms = (dec_input[at + 2] \div 16) + 16 * dec_input[at + 3]
                /\ addr.validation_status = dec_input[at + 1] + 256 * (dec_input[at + 2] % 16)


(***************************************************************************)
(* src/src/values.rs: the arms "systemFlags" and "options" of              *)
(* output_special_string_value.  An object class is an LdapValue,          *)
(* <<"String", name>> or <<"Binary", bytes>>; a printed line is the tuple  *)
(* of the arguments of its println!, and a flags value is                  *)
(* <<the type of the flag family, the bits>>.                              *)
(***************************************************************************)
\* most object classes of an entry
MaxClasses == 2

\* LdapValue::is_string
is_string(oc, value) == oc[1] = "String" /\ oc[2] = value

\* object_classes.iter().any(|oc| oc.is_string(value))
any_is_string(object_classes, value) ==
    \E i \in 1..Len(object_classes) : is_string(object_classes[i], value)

\* u32::from_str_radix(value, 10): an optional "+", then at least one digit,
\* digits only, and a value up to u32::MAX
u32_from_str_radix(value) ==
    IF Len(value) = 0 THEN None
    ELSE LET digits == IF value[1] = 43 THEN Tail(value) ELSE value
         IN  IF Len(digits) = 0 \/ \E i \in 1..Len(digits) : digits[i] \notin 48..57
             THEN None
             ELSE LET magnitude == i64_parse_digits(digits, 1, <<0, 0, 0, 0>>)
                  IN  IF ~IsSome(magnitude) THEN None
                      ELSE IF Unwrap(magnitude)[3] # 0 \/ Unwrap(magnitude)[4] # 0 THEN None
                      ELSE Some(MkI64(FALSE, Unwrap(magnitude)))

\* i32::from_str_radix(value, 10): an optional "+" or "-", then at least one
\* digit, digits only, and a value from i32::MIN to i32::MAX
i32_from_str_radix(value) ==
    IF ~IsSome(i64_from_str_radix(value)) THEN None
    ELSE LET parsed == Unwrap(i64_from_str_radix(value))
             magnitude == parsed[2]
         IN  IF magnitude[3] # 0 \/ magnitude[4] # 0 THEN None
             ELSE IF BigGreater(magnitude, <<0, 32768, 0, 0>>) THEN None
             ELSE IF ~parsed[1] /\ magnitude = <<0, 32768, 0, 0>> THEN None
             ELSE Some(parsed)

\* output_as_bitflags!: the line it prints for a parsed value
output_as_bitflags(key, value, parsed, enum) ==
    IF ~IsSome(parsed) THEN output_string_value_as_string(key, value)
    ELSE IF BigIsZero(Unwrap(parsed)[2]) THEN <<key, Unwrap(parsed)>>
    ELSE <<key, Unwrap(parsed), <<enum, Unwrap(parsed)>>>>

\* an arm "systemFlags" that looks for classSchema before crossRef
output_system_flags_class_schema_first(key, value, object_classes) ==
    <<TRUE,
      <<IF any_is_string(object_classes, "classSchema")
        THEN output_as_bitflags(key, value, i32_from_str_radix(value),
                                "ClassSchemaSystemFlags")
        ELSE IF any_is_string(object_classes, "crossRef")
        THEN output_as_bitflags(key, value, i32_from_str_radix(value),
                                "CrossRefSystemFlags")
        ELSE IF any_is_string(object_classes, "attributeSchema")
        THEN output_as_bitflags(key, value, i32_from_str_radix(value),
                                "AttributeSchemaSystemFlags")
        ELSE output_as_bitflags(key, value, i32_from_str_radix(value),
                                "GenericSystemFlags")>>,
      "printed">>

\* the arm "systemFlags": <<what it returns, the lines it prints, "printed">>
output_system_flags(key, value, object_classes) ==
    <<TRUE,
      <<IF any_is_string(object_classes, "crossRef")
        THEN output_as_bitflags(key, value, i32_from_str_radix(value),
                                "CrossRefSystemFlags")
        ELSE IF any_is_string(object_classes, "classSchema")
        THEN output_as_bitflags(key, value, i32_from_str_radix(value),
                                "ClassSchemaSystemFlags")
        ELSE IF any_is_string(object_classes, "attributeSchema")
        THEN output_as_bitflags(key, value, i32_from_str_radix(value),
                                "AttributeSchemaSystemFlags")
        ELSE output_as_bitflags(key, value, i32_from_str_radix(value),
                                "GenericSystemFlags")>>,
      "printed">>

\* an arm "options" that looks for nTDSDSA before nTDSConnection
output_options_dsa_first(key, value, object_classes) ==
    IF any_is_string(object_classes, "interSiteTransport")
    THEN <<TRUE, <<output_as_bitflags(key, value, u32_from_str_radix(value),
                                      "InterSiteTransportOptions")>>, "printed">>
    ELSE IF any_is_string(object_classes, "nTDSDSA")
    THEN <<TRUE, <<output_as_bitflags(key, value, u32_from_str_radix(value),
                                      "DsaSettingsOptions")>>, "printed">>
    ELSE IF any_is_string(object_classes, "nTDSConnection")
    THEN <<TRUE, <<output_as_bitflags(key, value, u32_from_str_radix(value),
                                      "DsConnectionOptions")>>, "printed">>
    ELSE IF any_is_string(object_classes, "ntDSSiteSettings")
    THEN <<TRUE, <<output_as_bitflags(key, value, u32_from_str_radix(value),
                                      "SiteSettingsOptions")>>, "printed">>
    ELSE IF \E i \in 1..Len(object_classes) :
                \/ is_string(object_classes[i], "siteConnection")
                \/ is_string(object_classes[i], "siteLink")
    THEN <<TRUE, <<output_as_bitflags(key, value, u32_from_str_radix(value),
                                      "SiteConnectionOptions")>>, "printed">>
    ELSE <<FALSE, <<>>, "printed">>

\* the arm "options": <<what it returns, the lines it prints, "printed">>
output_options(key, value, object_classes) ==
    IF any_is_string(object_classes, "interSiteTransport")
    THEN <<TRUE, <<output_as_bitflags(key, value, u32_from_str_radix(value),
                                      "InterSiteTransportOptions")>>, "printed">>
    ELSE IF any_is_string(object_classes, "nTDSConnection")
    THEN <<TRUE, <<output_as_bitflags(key, value, u32_from_str_radix(value),
                                      "DsConnectionOptions")>>, "printed">>
    ELSE IF any_is_string(object_classes, "nTDSDSA")
    THEN <<TRUE, <<output_as_bitflags(key, value, u32_from_str_radix(value),
                                      "DsaSettingsOptions")>>, "printed">>
    ELSE IF any_is_string(object_classes, "ntDSSiteSettings")
    THEN <<TRUE, <<output_as_bitflags(key, value, u32_from_str_radix(value),
                                      "SiteSettingsOptions")>>, "printed">>
    ELSE IF \E i \in 1..Len(object_classes) :
                \/ is_string(object_classes[i], "siteConnection")
                \/ is_string(object_classes[i], "siteLink")
    THEN <<TRUE, <<output_as_bitflags(key, value, u32_from_str_radix(value),
                                      "SiteConnectionOptions")>>, "printed">>
    ELSE <<FALSE, <<>>, "printed">>

\* the attribute names "options" and "systemFlags"
OptionsKey == <<111, 112, 116, 105, 111, 110, 115>>
SystemFlagsKey == <<115, 121, 115, 116, 101, 109, 70, 108, 97, 103, 115>>

\* the names of the object classes of the two arms, and "top"
FlagClassNames ==
    {"top", "interSiteTransport", "nTDSConnection", "nTDSDSA", "ntDSSiteSettings",
     "siteConnection", "siteLink", "crossRef", "classSchema", "attributeSchema"}

\* object classes: the names as text, and one value that is binary
FlagClassInputs == ({"String"} \X FlagClassNames) \cup {<<"Binary", <<99, 114>>>>}

\* the values "", "0", "1", "3", "+2", "-1" and "x"
FlagValueInputs == {<<>>, <<48>>, <<49>>, <<51>>, <<43, 50>>, <<45, 49>>, <<120>>}

FlagInputs ==
    {OptionsKey, SystemFlagsKey} \X FlagValueInputs
        \X SeqsUpTo(FlagClassInputs, MaxClasses)

FlagInit == DecCall("output_special_string_value", FlagInputs)

\* output_special_string_value for the key "options"
OptionsOutput ==
    /\ dec_input[1] = OptionsKey
    /\ DecReturn("output_special_string_value",
                 output_options(dec_input[1], dec_input[2], dec_input[3]))

\* output_special_string_value for the key "systemFlags"
SystemFlagsOutput ==
    /\ dec_input[1] = SystemFlagsKey
    /\ DecReturn("output_special_string_value",
                 output_system_flags(dec_input[1], dec_input[2], dec_input[3]))

FlagNext ==
    \/ OptionsOutput
    \/ SystemFlagsOutput

SpecFlags == FlagInit /\ [][FlagNext]_vars

(***************************************************************************)
(* The flag family against the priority of the object classes.             *)
(***************************************************************************)
\* the families of "options" and of "systemFlags" with the names of their
\* object classes, from the highest priority to the lowest
OptionsPriority ==
    <<<<{"interSiteTransport"}, "InterSiteTransportOptions">>,
      <<{"nTDSConnection"}, "DsConnectionOptions">>,
      <<{"nTDSDSA"}, "DsaSettingsOptions">>,
      <<{"ntDSSiteSettings"}, "SiteSettingsOptions">>,
      <<{"siteConnection", "siteLink"}, "SiteConnectionOptions">>>>

SystemFlagsPriority ==
    <<<<{"crossRef"}, "CrossRefSystemFlags">>,
      <<{"classSchema"}, "ClassSchemaSystemFlags">>,
      <<{"attributeSchema"}, "AttributeSchemaSystemFlags">>>>

\* the names of the object classes of the entry that are text
TextClassNames ==
    {dec_input[3][i][2] : i \in {j \in 1..Len(dec_input[3]) : dec_input[3][j][1] = "String"}}

\* the places of the priority with a class of the entry
Matching(priority) ==
    {i \in 1..Len(priority) : priority[i][1] \cap TextClassNames # {}}

\* the first of them
FirstMatching(priority) ==
    CHOOSE i \in Matching(priority) : \A j \in Matching(priority) : i <= j

\* the value is a decimal number other than zero: the line names the flags
NamesFlags == Len(dec_result[2]) = 1 /\ Len(dec_result[2][1]) = 3
                  /\ Len(dec_result[2][1][3]) = 2

\* the family of the flags of the line
PrintedFamily == dec_result[2][1][3][1]

FlagsReturned == dec_decoder = "output_special_string_value" /\ dec_pc = "returned"

\* C28: for a text value of "options" the flag family is that of the first
\* matching object class in the priority interSiteTransport, nTDSConnection,
\* nTDSDSA, ntDSSiteSettings, siteConnection or siteLink, and with none of
\* these classes the value is reported as not handled and nothing is
\* printed; for "systemFlags" the priority is crossRef, classSchema,
\* attributeSchema, with none of them the generic family is used, and the
\* value is always handled.
C28_FlagFamilyPriority ==
    FlagsReturned =>
        /\ dec_input[1] = OptionsKey =>
            /\ dec_result[1] = (Matching(OptionsPriority) # {})
            /\ Matching(OptionsPriority) = {} => dec_result[2] = <<>>
            /\ Matching(OptionsPriority) # {} => Len(dec_result[2]) = 1
            /\ NamesFlags =>
                PrintedFamily = OptionsPriority[FirstMatching(OptionsPriority)][2]
        /\ dec_input[1] = SystemFlagsKey =>
            /\ dec_result[1] = TRUE
            /\ Len(dec_result[2]) = 1
            /\ NamesFlags =>
                PrintedFamily =
                    IF Matching(SystemFlagsPriority) = {} THEN "GenericSystemFlags"
                    ELSE SystemFlagsPriority[FirstMatching(SystemFlagsPriority)][2]

\* "options: 3" of an entry that is a siteLink and an nTDSDSA is printed with
\* the flags of DsaSettingsOptions
C28_Witness ==
    /\ FlagsReturned
    /\ dec_input = <<OptionsKey, <<51>>, <<<<"String", "siteLink">>, <<"String", "nTDSDSA">>>>>>
    /\ dec_result = <<TRUE, <<<<OptionsKey, I64Of(3), <<"DsaSettingsOptions", I64Of(3)>>>>>>,
                      "printed">>

\* "systemFlags: 1" of an entry that is a classSchema and a crossRef is
\* printed with the flags of CrossRefSystemFlags
C28_SystemFlagsWitness ==
    /\ FlagsReturned
    /\ dec_input = <<SystemFlagsKey, <<49>>,
                     <<<<"String", "classSchema">>, <<"String", "crossRef">>>>>>
    /\ PrintedFamily = "CrossRefSystemFlags"

\* "options: 1" of an entry with none of the classes is not handled
C28_NotHandledWitness ==
    /\ FlagsReturned
    /\ dec_input = <<OptionsKey, <<49>>, <<<<"String", "top">>, <<"Binary", <<99, 114>>>>>>>>
    /\ dec_result = <<FALSE, <<>>, "printed">>


(***************************************************************************)
(* src/src/values.rs: what output_values prints for each value.  A         *)
(* rendering is <<the function of output_values' loop body that printed    *)
(* it, what is printed>>; attribute names and texts are sequences of       *)
(* Unicode scalar values.                                                  *)
(***************************************************************************)
CnKey == <<99, 110>>
GroupTypeKey == <<103, 114, 111, 117, 112, 84, 121, 112, 101>>
ObjectGuidKey == <<111, 98, 106, 101, 99, 116, 71, 85, 73, 68>>
PrefixMapKey == <<112, 114, 101, 102, 105, 120, 77, 97, 112>>
DnsRecordKey == <<100, 110, 115, 82, 101, 99, 111, 114, 100>>
TrustForestKey ==
    <<109, 115, 68, 83, 45, 84, 114, 117, 115, 116, 70, 111, 114, 101, 115, 116,
      84, 114, 117, 115, 116, 73, 110, 102, 111>>

\* output_as_struct!(key, value, struct) for the Option decoded that
\* try_from_bytes returns: Some(what is printed), or Abort if try_from_bytes
\* aborts
output_as_struct(key, value, decoded) ==
    IF IsAbort(decoded) THEN Abort
    ELSE IF IsSome(decoded) THEN Some(<<<<key, ":::">>, Unwrap(decoded)>>)
    ELSE Some(output_binary_value_as_hexdump(key, value))

\* output_guid_value: the Uuid of the 16 bytes, or the hex dump
output_guid_value(key, value) ==
    IF Len(value) # 16 THEN output_binary_value_as_hexdump(key, value)
    ELSE <<key, <<"Uuid::from_bytes_le", value>>>>

\* the arms of output_special_binary_value for objectGUID, prefixMap,
\* dnsRecord and msDS-TrustForestTrustInfo, and its last else:
\* <<what it returns, what it prints, "printed">>, or Abort
output_special_binary_printed(key, value) ==
    LET printed ==
            IF key = ObjectGuidKey THEN Some(output_guid_value(key, value))
            ELSE IF key = PrefixMapKey
            THEN output_as_struct(key, value, PrefixMap_try_from_bytes(value))
            ELSE IF key = DnsRecordKey
            THEN output_as_struct(key, value, DnsRecord_try_from_bytes(value))
            ELSE output_as_struct(key, value, TrustForestTrustInfo_try_from_bytes(value))
    IN  IF key \notin {ObjectGuidKey, PrefixMapKey, DnsRecordKey, TrustForestKey}
        THEN <<FALSE, <<>>, "printed">>
        ELSE IF IsAbort(printed) THEN Abort
        ELSE <<TRUE, <<<<"output_special_binary_value", Unwrap(printed)>>>>, "printed">>

\* the arms of output_special_string_value for groupType, options and
\* maxPwdAge, and its last else: <<what it returns, what it prints, "printed">>
output_special_string_printed(key, value, object_classes) ==
    IF key = GroupTypeKey
    THEN <<TRUE,
           <<<<"output_special_string_value",
               output_as_bitflags(key, value, i32_from_str_radix(value), "GroupType")>>>>,
           "printed">>
    ELSE IF key = OptionsKey
    THEN <<output_options(key, value, object_classes)[1],
           [i \in 1..Len(output_options(key, value, object_classes)[2]) |->
               <<"output_special_string_value",
                 output_options(key, value, object_classes)[2][i]>>],
           "printed">>
    ELSE IF key = IntervalKey
    THEN <<TRUE,
           <<<<"output_special_string_value", output_negative_interval_value(key, value)>>>>,
           "printed">>
    ELSE <<FALSE, <<>>, "printed">>

\* the arm LdapValue::Binary of the loop body: Some(the renderings), or Abort
output_values_binary_printed(key, bin_value) ==
    IF IsAbort(output_special_binary_printed(key, bin_value)) THEN Abort
    ELSE IF ~output_special_binary_printed(key, bin_value)[1]
    THEN Some(output_special_binary_printed(key, bin_value)[2]
                  \o <<<<"output_binary_value_as_hexdump",
                         output_binary_value_as_hexdump(key, bin_value)>>>>)
    ELSE Some(output_special_binary_printed(key, bin_value)[2])

\* the arm LdapValue::String of the loop body: Some(the renderings), or Abort
output_values_string_printed(key, str_value, object_classes) ==
    LET text == output_special_string_printed(key, str_value, object_classes)
        binary == output_special_binary_printed(key, utf8_encode(str_value))
    IN  IF ~text[1]
        THEN IF IsAbort(binary) THEN Abort
             ELSE IF ~binary[1]
             THEN Some(text[2] \o binary[2]
                           \o <<<<"output_string_value_as_string",
                                  output_string_value_as_string(key, str_value)>>>>)
             ELSE Some(text[2] \o binary[2])
        ELSE Some(text[2])

\* attribute names with a text decoder, with a binary decoder, with neither
RenderKeys ==
    {CnKey, GroupTypeKey, OptionsKey, IntervalKey, ObjectGuidKey, PrefixMapKey,
     DnsRecordKey, TrustForestKey}

\* no object class, and nTDSDSA
RenderClasses == {<<>>, <<<<"String", "nTDSDSA">>>>}

\* the texts "5", "a\nb" and "-10000000"; two bytes, sixteen bytes, a prefix
\* map of no entry, a trust info of one record, a trust info whose record
\* declares 200 bytes and has one, and a DNS record of an empty name
RenderValues ==
    {<<"String", <<53>>>>, <<"String", <<97, 10, 98>>>>,
     <<"String", <<45, 49>> \o Zeros(7)>>,
     <<"Binary", <<1, 2>>>>,
     <<"Binary", [i \in 1..16 |-> i]>>,
     <<"Binary", <<0, 0, 0, 0, 8, 0, 0, 0>>>>,
     <<"Binary", <<1, 0, 0, 0>> \o <<1, 0, 0, 0>> \o TrustRecordBytes(0, Counted(<<97>>), 0)>>,
     <<"Binary", <<1, 0, 0, 0, 1, 0, 0, 0, 200, 0, 0, 0, 9>>>>,
     <<"Binary", DnsRecordBytes(2, <<0, 0>>, 0)>>}

\* dec_input is <<key, values, object_classes>>; dec_result is the sequence
\* of <<value, renderings>> of the iterations of the loop that have ended
RenderInit ==
    DecCall("output_values", RenderKeys \X SeqsUpTo(RenderValues, MaxValues) \X RenderClasses)

\* the value of the next iteration
NextValue == dec_input[2][Len(dec_result) + 1]

\* the end of an iteration with the renderings, or the abort of the program
RenderStep(printed) ==
    /\ dec_result' = IF IsAbort(printed) THEN dec_result
                     ELSE Append(dec_result, <<NextValue, Unwrap(printed)>>)
    /\ dec_pc' = IF IsAbort(printed) THEN "aborted" ELSE "call"
    /\ UNCHANGED <<dec_decoder, dec_input>>
    /\ UNCHANGED non_dec_vars

\* one iteration of the loop for a binary value
output_values_print_Binary ==
    /\ dec_decoder = "output_values"
    /\ dec_pc = "call"
    /\ Len(dec_result) < Len(dec_input[2])
    /\ NextValue[1] = "Binary"
    /\ RenderStep(output_values_binary_printed(dec_input[1], NextValue[2]))

\* one iteration of the loop for a text value
output_values_print_String ==
    /\ dec_decoder = "output_values"
    /\ dec_pc = "call"
    /\ Len(dec_result) < Len(dec_input[2])
    /\ NextValue[1] = "String"
    /\ RenderStep(output_values_string_printed(dec_input[1], NextValue[2], dec_input[3]))

\* the end of the loop
output_values_print_return ==
    /\ dec_decoder = "output_values"
    /\ dec_pc = "call"
    /\ Len(dec_result) = Len(dec_input[2])
    /\ dec_pc' = "returned"
    /\ UNCHANGED <<dec_decoder, dec_input, dec_result>>
    /\ UNCHANGED non_dec_vars

RenderNext ==
    \/ output_values_print_Binary
    \/ output_values_print_String
    \/ output_values_print_return

SpecRender == RenderInit /\ [][RenderNext]_vars

(***************************************************************************)
(* The number of renderings of each value.                                 *)
(***************************************************************************)
\* the call of output_values has ended: it has returned or the program has
\* aborted
RenderEnded == dec_decoder = "output_values" /\ dec_pc \in {"returned", "aborted"}

\* C29: exactly one rendering per value: for every attribute name and every
\* sequence of values output_values emits, for each value in input order,
\* exactly one rendering, never none and never two; a decoder that claims the
\* attribute name and fails to decode emits its own fallback and the caller
\* emits nothing more.
C29_OneRenderingPerValue ==
    RenderEnded =>
        /\ Len(dec_result) = Len(dec_input[2])
        /\ \A i \in 1..Len(dec_result) :
            /\ dec_result[i][1] = dec_input[2][i]
            /\ Len(dec_result[i][2]) = 1

\* a trust info whose record declares 200 bytes and has one: the program
\* aborts in the decoder and the value, and the value after it, is not
\* rendered
C29_UnrenderedValue ==
    /\ RenderEnded
    /\ dec_pc = "aborted"
    /\ dec_input[1] = TrustForestKey
    /\ dec_input[2] = <<<<"Binary", <<1, 0, 0, 0, 1, 0, 0, 0, 200, 0, 0, 0, 9>>>>,
                        <<"Binary", <<1, 2>>>>>>
    /\ dec_result = <<>>

\* the function that renders the i-th value: the text decoder for a text
\* value of an attribute name it has an arm for, else the binary decoder for
\* an attribute name it has an arm for, else the fallback of the kind of value
RenderedBy(i) ==
    IF /\ dec_input[2][i][1] = "String"
       /\ \/ dec_input[1] \in {GroupTypeKey, IntervalKey}
          \/ dec_input[1] = OptionsKey /\ dec_input[3] # <<>>
    THEN "output_special_string_value"
    ELSE IF dec_input[1] \in {ObjectGuidKey, PrefixMapKey, DnsRecordKey, TrustForestKey}
    THEN "output_special_binary_value"
    ELSE IF dec_input[2][i][1] = "String" THEN "output_string_value_as_string"
    ELSE "output_binary_value_as_hexdump"

\* what does hold: every iteration that ends has emitted exactly one
\* rendering of its value, by the decoder that has an arm for the attribute
\* name if there is one, and a call that returns has rendered every value
C29_OneRenderingPerIteration ==
    dec_decoder = "output_values" =>
        /\ \A i \in 1..Len(dec_result) :
            /\ dec_result[i][1] = dec_input[2][i]
            /\ Len(dec_result[i][2]) = 1
            /\ dec_result[i][2][1][1] = RenderedBy(i)
        /\ dec_pc = "returned" => Len(dec_result) = Len(dec_input[2])

\* a trust info that does not decode is printed once, as the hex dump of the
\* decoder
C29_OwnFallbackWitness ==
    /\ dec_decoder = "output_values"
    /\ dec_pc = "returned"
    /\ dec_input[1] = TrustForestKey
    /\ dec_input[2] = <<<<"Binary", <<1, 2>>>>>>
    /\ dec_result = <<<<<<"Binary", <<1, 2>>>>,
                        <<<<"output_special_binary_value",
                            output_binary_value_as_hexdump(TrustForestKey, <<1, 2>>)>>>>>>>>


(***************************************************************************)
(* Two SIDs with one alias, and aliases against the canonical text.        *)
(***************************************************************************)
\* the SIDs that Sid::try_from_bytes decodes from the inputs
AliasSids ==
    {Unwrap(Sid_try_from_bytes(b)) : b \in {c \in AliasSidInputs : IsSome(Sid_try_from_bytes(c))}}

\* the number of characters of the text that to_sddl_sid_string returns: of
\* the alias, or of the characters of the canonical text
SddlLength(sddl) == IF Len(sddl) = 1 THEN Len(sddl[1]) ELSE Len(sddl)

\* C30: the alias table is injective: two version-1 SIDs that differ in
\* their authority or in their sequence of sub-authorities never have the
\* same alias, and no alias has the form of a canonical S-1-... text (an
\* alias has two characters, a canonical text at least five and is not a
\* single piece), so that the text of to_sddl_sid_string identifies the SID.
C30_AliasInjective ==
    (alias_pc = "done") =>
        /\ Unwrap(alias_sid).version = 1
        /\ IsSome(alias_code) =>
            /\ Len(Unwrap(alias_code)) = 2
            /\ alias_sddl = <<Unwrap(alias_code)>>
            /\ \A other \in AliasSids :
                   Sid_as_well_known_sddl_sid_string(other) = alias_code
                       => /\ other.authority = Unwrap(alias_sid).authority
                          /\ other.subauthorities = Unwrap(alias_sid).subauthorities
        /\ ~IsSome(alias_code) =>
            /\ Len(alias_sddl) >= 5
            /\ SubSeq(alias_sddl, 1, 4) = <<"S", "-", "1", "-">>
        /\ \A other \in AliasSids :
               Sid_to_sddl_sid_string(other) = alias_sddl => other = Unwrap(alias_sid)

\* the built-in administrators have the alias BA, and so has no other SID
\* of the inputs
C30_Witness ==
    /\ alias_pc = "done"
    /\ alias_bytes = SidBytesOf(5, <<32, 544>>)
    /\ alias_code = Some("BA")
    /\ alias_sddl = <<"BA">>
    /\ Cardinality({other \in AliasSids :
                        IsSome(Sid_as_well_known_sddl_sid_string(other))}) > 1

============================================================================
